---- MODULE Spec2Model ----
(***************************************************************************)
(* UploadJobImpl (chrome/browser/chromeos/policy/upload_job_impl.cc): the  *)
(* multipart upload job with its OAuth-token-gated retry state machine.    *)
(*                                                                         *)
(* A std::string is a sequence of one-character strings.  A unique_ptr is  *)
(* a sequence of length 0 (null) or 1 (the pointee).  A job is a record:   *)
(* the fields named like the members of UploadJobImpl are the object's     *)
(* state, the other fields are what the job has done to its collaborators  *)
(* (token service, URL fetcher, task runner, boundary generator, delegate).*)
(***************************************************************************)
EXTENDS Integers, Sequences, FiniteSets, TLC

VARIABLES jobs, g_retry_delay_ms

vars == <<jobs, g_retry_delay_ms>>

(***************************************************************************)
(* Bounds of the model.                                                    *)
(***************************************************************************)
\* Most segments a caller adds to one job.
MaxSegments == 3

(***************************************************************************)
(* Program constants.                                                      *)
(***************************************************************************)
kMaxAttempts == 4
kMaxMimeBoundarySize == 70
kExtraSpace == 128
kDefaultRetryDelayMs == 25000
HTTP_OK == 200
HTTP_UNAUTHORIZED == 401

kAuthorizationHeaderPrefix ==
    <<"A", "u", "t", "h", "o", "r", "i", "z", "a", "t", "i", "o", "n", ":", " ",
      "B", "e", "a", "r", "e", "r", " ">>
kUploadContentType ==
    <<"m", "u", "l", "t", "i", "p", "a", "r", "t", "/", "f", "o", "r", "m", "-",
      "d", "a", "t", "a">>
kBoundaryField ==
    <<";", " ", "b", "o", "u", "n", "d", "a", "r", "y", "=">>
kDashDash ==
    <<"-", "-">>
kCRLF ==
    <<"\r", "\n">>
kContentDisposition ==
    <<"C", "o", "n", "t", "e", "n", "t", "-", "D", "i", "s", "p", "o", "s", "i",
      "t", "i", "o", "n", ":", " ", "f", "o", "r", "m", "-", "d", "a", "t", "a",
      ";", " ", "n", "a", "m", "e", "=", "\"">>
kFilenameField ==
    <<";", " ", "f", "i", "l", "e", "n", "a", "m", "e", "=", "\"">>
kQuote ==
    <<"\"">>
kHeaderSeparator ==
    <<":", " ">>

\* enum State, enum ErrorCode
States ==
    {"IDLE", "ACQUIRING_TOKEN", "PREPARING_CONTENT", "UPLOADING", "SUCCESS", "ERROR"}
ErrorCodes ==
    {"NETWORK_ERROR", "AUTHENTICATION_ERROR", "SERVER_ERROR"}

(***************************************************************************)
(* Inputs the environment may supply.                                      *)
(***************************************************************************)
\* Access tokens the token service may return.
Tokens ==
    {<<"t">>, <<"u">>}
\* Boundaries the injected MimeBoundaryGenerator may return.
Boundaries ==
    {<<"B">>, <<"Q", "9">>}
\* HTTP response codes a completed fetch may carry.
ResponseCodes ==
    {HTTP_OK, 201, 204, HTTP_UNAUTHORIZED, 500}
\* Values given to SetRetryDelayForTesting (CHECK_GE rejects the negative one).
RetryDelays ==
    {-1, 0, kDefaultRetryDelayMs}
\* Arguments of AddDataSegment.  header_entries is a std::map: its entries in
\* key order.  The first two share the name "a".
SegmentChoices ==
    { [name |-> <<"a">>, filename |-> <<>>, header_entries |-> <<>>,
       data |-> <<"x">>],
      [name |-> <<"a">>, filename |-> <<"f">>,
       header_entries |-> << <<(<<"h">>), (<<"v">>)>> >>, data |-> <<>>],
      [name |-> <<"b">>, filename |-> <<>>,
       header_entries |-> << <<(<<"h">>), (<<"v">>)>>, <<(<<"k">>), (<<>>)>> >>,
       data |-> <<"y", "\r", "\n">>] }

\* Most segments added to one job when the assembly is examined.
MaxAssemblySegments == 3

\* Arguments of AddDataSegment when the assembly is examined: payloads that
\* are empty, contain CRLF, or contain a delimiter line of boundary "B".
AssemblySegmentChoices ==
    SegmentChoices \cup
    { [name |-> <<"c">>, filename |-> <<"g", ".", "z">>, header_entries |-> <<>>,
       data |-> <<"-", "-", "B">>],
      [name |-> <<"d">>, filename |-> <<>>,
       header_entries |-> << <<(<<"T">>), (<<"p", "/", "q">>)>> >>,
       data |-> <<"z", "\r", "\n", "-", "-", "B", "-", "-", "\r", "\n">>] }

\* Most failures of each job when two jobs run side by side.
MaxTwoJobRetries == 1

\* What GenerateBoundary may return when the size estimate is examined: the
\* boundaries above and one of the greatest length, kMaxMimeBoundarySize.
EstimateBoundaries ==
    Boundaries \cup {[i \in 1..kMaxMimeBoundarySize |-> "-"]}

(***************************************************************************)
(* DataSegment                                                             *)
(***************************************************************************)
\* DataSegment::DataSegment: data_ owns the payload.
DataSegment(name, filename, data, header_entries) ==
    [name_ |-> name, filename_ |-> filename, data_ |-> <<data>>,
     header_entries_ |-> header_entries]

\* DataSegment::GetDataSize
GetDataSize(data_segment) ==
    Len(data_segment.data_[1])

(***************************************************************************)
(* UploadJobImpl                                                           *)
(***************************************************************************)
\* The constructor without the URL check.
UploadJobImpl_NoUrlCheck(url_is_valid) ==
    [ upload_url_valid      |-> url_is_valid,
      state_                |-> "IDLE",
      retry_                |-> 0,
      access_token_         |-> <<>>,
      access_token_request_ |-> <<>>,
      upload_fetcher_       |-> <<>>,
      mime_boundary_        |-> <<>>,
      post_data_            |-> <<>>,
      data_segments_        |-> <<>>,
      alive                 |-> TRUE,
      dcheck_failed         |-> {},
      started               |-> FALSE,
      token_requests        |-> 0,
      tokens_granted        |-> <<>>,
      invalidated           |-> <<>>,
      posts                 |-> <<>>,
      boundary_calls        |-> 0,
      delayed_tasks         |-> <<>>,
      tasks_posted          |-> 0,
      delegate_calls        |-> <<>>,
      assembly_failed       |-> FALSE,
      realloc_warned        |-> FALSE,
      payloads_taken        |-> 0,
      callback_views        |-> <<>>,
      last_error_code       |-> "NONE" ]

\* UploadJobImpl::UploadJobImpl.  An invalid upload URL forces ERROR.
UploadJobImpl(url_is_valid) ==
    [ upload_url_valid      |-> url_is_valid,
      state_                |-> IF url_is_valid THEN "IDLE" ELSE "ERROR",
      retry_                |-> 0,
      access_token_         |-> <<>>,
      access_token_request_ |-> <<>>,
      upload_fetcher_       |-> <<>>,
      mime_boundary_        |-> <<>>,
      post_data_            |-> <<>>,
      data_segments_        |-> <<>>,
      \* the object is alive (not yet destroyed)
      alive                 |-> TRUE,
      \* DCHECKs inside the state machine that were evaluated and found false
      dcheck_failed         |-> {},
      \* Start() passed its state guard
      started               |-> FALSE,
      \* token_service_: number of StartRequest calls, tokens it returned,
      \* tokens passed to InvalidateAccessToken
      token_requests        |-> 0,
      tokens_granted        |-> <<>>,
      invalidated           |-> <<>>,
      \* URL fetchers created and started, in order
      posts                 |-> <<>>,
      \* boundary_generator_: number of GenerateBoundary calls
      boundary_calls        |-> 0,
      \* task_runner_: delayed tasks posted and not yet run
      delayed_tasks         |-> <<>>,
      \* number of PostDelayedTask calls
      tasks_posted          |-> 0,
      \* delegate_: callbacks received, in order
      delegate_calls        |-> <<>>,
      \* the assembly-failure message was logged
      assembly_failed       |-> FALSE,
      \* the "Reallocation needed in POST data buffer" warning was logged
      realloc_warned        |-> FALSE,
      \* number of DataSegment::GetData calls, each moving a payload out
      payloads_taken        |-> 0,
      \* delegate_: the members of the job as each callback found them
      callback_views        |-> <<>>,
      \* the error code of the last "Upload failed, error code:" log line
      last_error_code       |-> "NONE" ]

DCheck(job, cond, label) ==
    IF cond THEN job
    ELSE [job EXCEPT !.dcheck_failed = @ \cup {label}]

\* UploadJobImpl::RequestAccessToken
RequestAccessToken(job) ==
    LET j1 == DCheck(job, job.access_token_request_ = <<>>, "RequestAccessToken:195")
    IN [j1 EXCEPT !.state_ = "ACQUIRING_TOKEN",
                  !.token_requests = @ + 1,
                  !.access_token_request_ = <<job.token_requests + 1>>]

\* The uniqueness check comparing each name with the previous one only.
RECURSIVE NamesUnique_AdjacentOnly(_, _)
NamesUnique_AdjacentOnly(data_segments, used_names) ==
    IF data_segments = <<>> THEN TRUE
    ELSE IF Head(data_segments).name_ \in used_names THEN FALSE
    ELSE NamesUnique_AdjacentOnly(Tail(data_segments),
                                  {Head(data_segments).name_})

\* The uniqueness check of SetUpMultipart: FALSE when an insert into
\* used_names finds the name present.
RECURSIVE NamesUnique(_, _)
NamesUnique(data_segments, used_names) ==
    IF data_segments = <<>> THEN TRUE
    ELSE IF Head(data_segments).name_ \in used_names THEN FALSE
    ELSE NamesUnique(Tail(data_segments),
                     used_names \cup {Head(data_segments).name_})

\* The size estimate of SetUpMultipart.
RECURSIVE HeaderEntriesSize(_)
HeaderEntriesSize(entries) ==
    IF entries = <<>> THEN 0
    ELSE Len(Head(entries)[1]) + Len(Head(entries)[2])
         + HeaderEntriesSize(Tail(entries))

\* The estimate without the 128 bytes of extra space per segment.
RECURSIVE EstimateSize_NoExtraSpace(_)
EstimateSize_NoExtraSpace(data_segments) ==
    IF data_segments = <<>> THEN 0
    ELSE LET s == Head(data_segments)
         IN HeaderEntriesSize(s.header_entries_)
            + kMaxMimeBoundarySize + Len(s.name_) + Len(s.filename_)
            + GetDataSize(s)
            + EstimateSize_NoExtraSpace(Tail(data_segments))

RECURSIVE EstimateSize(_)
EstimateSize(data_segments) ==
    IF data_segments = <<>> THEN 0
    ELSE LET s == Head(data_segments)
         IN HeaderEntriesSize(s.header_entries_)
            + kMaxMimeBoundarySize + Len(s.name_) + Len(s.filename_)
            + GetDataSize(s) + kExtraSpace
            + EstimateSize(Tail(data_segments))

\* The custom header fields of one segment.
RECURSIVE AppendHeaderEntries(_)
AppendHeaderEntries(entries) ==
    IF entries = <<>> THEN <<>>
    ELSE Head(entries)[1] \o kHeaderSeparator \o Head(entries)[2] \o kCRLF
         \o AppendHeaderEntries(Tail(entries))

\* The loop body writing the filename field for an empty filename too.
AppendSegment_AlwaysFilename(data_segment, mime_boundary) ==
    kDashDash \o mime_boundary \o kCRLF
    \o kContentDisposition \o data_segment.name_ \o kQuote
    \o kFilenameField \o data_segment.filename_ \o kQuote
    \o kCRLF
    \o AppendHeaderEntries(data_segment.header_entries_)
    \o kCRLF \o data_segment.data_[1] \o kCRLF

\* What the loop body of SetUpMultipart appends for one segment.
AppendSegment(data_segment, mime_boundary) ==
    kDashDash \o mime_boundary \o kCRLF
    \o kContentDisposition \o data_segment.name_ \o kQuote
    \o (IF data_segment.filename_ # <<>>
        THEN kFilenameField \o data_segment.filename_ \o kQuote
        ELSE <<>>)
    \o kCRLF
    \o AppendHeaderEntries(data_segment.header_entries_)
    \o kCRLF \o data_segment.data_[1] \o kCRLF

RECURSIVE AppendSegments(_, _)
AppendSegments(data_segments, mime_boundary) ==
    IF data_segments = <<>> THEN <<>>
    ELSE AppendSegment(Head(data_segments), mime_boundary)
         \o AppendSegments(Tail(data_segments), mime_boundary)

\* The message without the closing delimiter line.
AssembleBody_NoClosingDelimiter(data_segments, mime_boundary) ==
    AppendSegments(data_segments, mime_boundary)

\* The whole message written by SetUpMultipart.
AssembleBody(data_segments, mime_boundary) ==
    AppendSegments(data_segments, mime_boundary)
    \o kDashDash \o mime_boundary \o kDashDash \o kCRLF

\* SetUpMultipart without the early return for an already assembled body.
SetUpMultipart_NoCache(job, boundary) ==
    LET j1 == DCheck(job, job.state_ = "ACQUIRING_TOKEN", "SetUpMultipart:206")
        j2 == [j1 EXCEPT !.state_ = "PREPARING_CONTENT"]
    IN IF ~NamesUnique(j2.data_segments_, {})
       THEN [ret |-> FALSE, job |-> j2]
       ELSE [ret |-> TRUE,
             job |-> [j2 EXCEPT
                        !.mime_boundary_ = <<boundary>>,
                        !.boundary_calls = @ + 1,
                        !.post_data_ = <<AssembleBody(j2.data_segments_, boundary)>>,
                        !.payloads_taken = @ + Len(j2.data_segments_),
                        !.realloc_warned =
                            Len(AssembleBody(j2.data_segments_, boundary))
                                > EstimateSize(j2.data_segments_),
                        !.data_segments_ = <<>>]]

\* SetUpMultipart without data_segments_.clear().
SetUpMultipart_KeepsSegments(job, boundary) ==
    LET j1 == DCheck(job, job.state_ = "ACQUIRING_TOKEN", "SetUpMultipart:206")
        j2 == [j1 EXCEPT !.state_ = "PREPARING_CONTENT"]
    IN IF j2.mime_boundary_ # <<>> /\ j2.post_data_ # <<>>
       THEN [ret |-> TRUE, job |-> j2]
       ELSE IF ~NamesUnique(j2.data_segments_, {})
       THEN [ret |-> FALSE, job |-> j2]
       ELSE [ret |-> TRUE,
             job |-> [j2 EXCEPT
                        !.mime_boundary_ = <<boundary>>,
                        !.boundary_calls = @ + 1,
                        !.post_data_ = <<AssembleBody(j2.data_segments_, boundary)>>,
                        !.payloads_taken = @ + Len(j2.data_segments_),
                        !.realloc_warned =
                            Len(AssembleBody(j2.data_segments_, boundary))
                                > EstimateSize(j2.data_segments_)]]

\* SetUpMultipart checking each name only when it writes the segment: the
\* payloads of the segments before the first duplicate are moved out before
\* the duplicate is found.
SetUpMultipart_ChecksWhileWriting(job, boundary) ==
    LET j1 == DCheck(job, job.state_ = "ACQUIRING_TOKEN", "SetUpMultipart:206")
        j2 == [j1 EXCEPT !.state_ = "PREPARING_CONTENT"]
        dup == {i \in 1..Len(j2.data_segments_) :
                   \E k \in 1..(i - 1) :
                       j2.data_segments_[k].name_ = j2.data_segments_[i].name_}
        first == CHOOSE i \in dup : \A k \in dup : i <= k
    IN IF j2.mime_boundary_ # <<>> /\ j2.post_data_ # <<>>
       THEN [ret |-> TRUE, job |-> j2]
       ELSE IF dup # {}
       THEN [ret |-> FALSE,
             job |-> [j2 EXCEPT
                        !.payloads_taken = @ + first - 1,
                        !.data_segments_ =
                            [i \in 1..Len(@) |->
                                IF i < first THEN [@[i] EXCEPT !.data_ = <<>>]
                                ELSE @[i]]]]
       ELSE [ret |-> TRUE,
             job |-> [j2 EXCEPT
                        !.mime_boundary_ = <<boundary>>,
                        !.boundary_calls = @ + 1,
                        !.post_data_ = <<AssembleBody(j2.data_segments_, boundary)>>,
                        !.payloads_taken = @ + Len(j2.data_segments_),
                        !.realloc_warned =
                            Len(AssembleBody(j2.data_segments_, boundary))
                                > EstimateSize(j2.data_segments_),
                        !.data_segments_ = <<>>]]

\* UploadJobImpl::SetUpMultipart: its return value and the job it leaves.
\* boundary is what GenerateBoundary returns if it is called.
SetUpMultipart(job, boundary) ==
    LET j1 == DCheck(job, job.state_ = "ACQUIRING_TOKEN", "SetUpMultipart:206")
        j2 == [j1 EXCEPT !.state_ = "PREPARING_CONTENT"]
    IN IF j2.mime_boundary_ # <<>> /\ j2.post_data_ # <<>>
       THEN [ret |-> TRUE, job |-> j2]
       ELSE IF ~NamesUnique(j2.data_segments_, {})
       THEN [ret |-> FALSE, job |-> j2]
       ELSE [ret |-> TRUE,
             job |-> [j2 EXCEPT
                        !.mime_boundary_ = <<boundary>>,
                        !.boundary_calls = @ + 1,
                        !.post_data_ = <<AssembleBody(j2.data_segments_, boundary)>>,
                        !.payloads_taken = @ + Len(j2.data_segments_),
                        !.realloc_warned =
                            Len(AssembleBody(j2.data_segments_, boundary))
                                > EstimateSize(j2.data_segments_),
                        !.data_segments_ = <<>>]]

\* UploadJobImpl::CreateAndStartURLFetcher
CreateAndStartURLFetcher(job, access_token) ==
    LET j1 == DCheck(job, job.state_ = "PREPARING_CONTENT",
                     "CreateAndStartURLFetcher:273")
        fetcher == [method |-> "POST",
                    content_type |-> kUploadContentType \o kBoundaryField
                                     \o j1.mime_boundary_[1],
                    upload_data |-> j1.post_data_[1],
                    extra_header |-> kAuthorizationHeaderPrefix \o access_token]
    IN [j1 EXCEPT !.upload_fetcher_ = <<fetcher>>,
                  !.posts = Append(@, fetcher)]

\* StartUpload without state_ = UPLOADING after the fetcher was started.
StartUpload_StaysPreparing(job, boundary) ==
    LET r == SetUpMultipart(job, boundary)
    IN IF ~r.ret
       THEN [r.job EXCEPT !.assembly_failed = TRUE, !.state_ = "ERROR"]
       ELSE CreateAndStartURLFetcher(r.job, r.job.access_token_)

\* UploadJobImpl::StartUpload
StartUpload(job, boundary) ==
    LET r == SetUpMultipart(job, boundary)
    IN IF ~r.ret
       THEN [r.job EXCEPT !.assembly_failed = TRUE, !.state_ = "ERROR"]
       ELSE [CreateAndStartURLFetcher(r.job, r.job.access_token_)
               EXCEPT !.state_ = "UPLOADING"]

\* The members of the job.
Members(job) ==
    [state_ |-> job.state_, retry_ |-> job.retry_,
     access_token_ |-> job.access_token_,
     access_token_request_ |-> job.access_token_request_,
     upload_fetcher_ |-> job.upload_fetcher_,
     mime_boundary_ |-> job.mime_boundary_,
     post_data_ |-> job.post_data_,
     data_segments_ |-> job.data_segments_]

\* delegate_->OnFailure(error_code), called on the job as it is then.
OnFailure(job, error_code) ==
    [job EXCEPT !.delegate_calls =
                    Append(@, [cb |-> "OnFailure", error_code |-> error_code]),
                !.callback_views = Append(@, Members(job))]

\* delegate_->OnSuccess(), called on the job as it is then.
OnSuccess(job) ==
    [job EXCEPT !.delegate_calls =
                    Append(@, [cb |-> "OnSuccess", error_code |-> "NONE"]),
                !.callback_views = Append(@, Members(job))]

\* HandleError with the attempt bound off by one (retry_ > kMaxAttempts).
HandleError_OffByOne(job, error_code, delay) ==
    LET j1 == [job EXCEPT !.retry_ = @ + 1, !.last_error_code = error_code,
                          !.upload_fetcher_ = <<>>]
    IN IF j1.retry_ > kMaxAttempts
       THEN OnFailure([j1 EXCEPT !.access_token_ = <<>>,
                                 !.post_data_ = <<>>,
                                 !.state_ = "ERROR"],
                      error_code)
       ELSE IF error_code = "AUTHENTICATION_ERROR"
       THEN [j1 EXCEPT !.invalidated = Append(@, j1.access_token_),
                       !.access_token_ = <<>>,
                       !.delayed_tasks =
                           Append(@, [fn |-> "RequestAccessToken", delay |-> delay]),
                       !.tasks_posted = @ + 1]
       ELSE [j1 EXCEPT !.state_ = "ACQUIRING_TOKEN",
                       !.delayed_tasks =
                           Append(@, [fn |-> "StartUpload", delay |-> delay]),
                       !.tasks_posted = @ + 1]

\* HandleError reporting every failure to the delegate, not only the last.
HandleError_NotifyEveryFailure(job, error_code, delay) ==
    LET j1 == OnFailure([job EXCEPT !.retry_ = @ + 1,
                                    !.last_error_code = error_code,
                                    !.upload_fetcher_ = <<>>],
                        error_code)
    IN IF j1.retry_ >= kMaxAttempts
       THEN [j1 EXCEPT !.access_token_ = <<>>,
                       !.post_data_ = <<>>,
                       !.state_ = "ERROR"]
       ELSE IF error_code = "AUTHENTICATION_ERROR"
       THEN [j1 EXCEPT !.invalidated = Append(@, j1.access_token_),
                       !.access_token_ = <<>>,
                       !.delayed_tasks =
                           Append(@, [fn |-> "RequestAccessToken", delay |-> delay]),
                       !.tasks_posted = @ + 1]
       ELSE [j1 EXCEPT !.state_ = "ACQUIRING_TOKEN",
                       !.delayed_tasks =
                           Append(@, [fn |-> "StartUpload", delay |-> delay]),
                       !.tasks_posted = @ + 1]

\* HandleError keeping the assembled body on the terminal failure.
HandleError_TerminalKeepsBody(job, error_code, delay) ==
    LET j1 == [job EXCEPT !.retry_ = @ + 1, !.last_error_code = error_code,
                          !.upload_fetcher_ = <<>>]
    IN IF j1.retry_ >= kMaxAttempts
       THEN OnFailure([j1 EXCEPT !.access_token_ = <<>>,
                                 !.state_ = "ERROR"],
                      error_code)
       ELSE IF error_code = "AUTHENTICATION_ERROR"
       THEN [j1 EXCEPT !.invalidated = Append(@, j1.access_token_),
                       !.access_token_ = <<>>,
                       !.delayed_tasks =
                           Append(@, [fn |-> "RequestAccessToken", delay |-> delay]),
                       !.tasks_posted = @ + 1]
       ELSE [j1 EXCEPT !.state_ = "ACQUIRING_TOKEN",
                       !.delayed_tasks =
                           Append(@, [fn |-> "StartUpload", delay |-> delay]),
                       !.tasks_posted = @ + 1]

\* HandleError retrying every error kind with the same token.
HandleError_AlwaysSameToken(job, error_code, delay) ==
    LET j1 == [job EXCEPT !.retry_ = @ + 1, !.last_error_code = error_code,
                          !.upload_fetcher_ = <<>>]
    IN IF j1.retry_ >= kMaxAttempts
       THEN OnFailure([j1 EXCEPT !.access_token_ = <<>>,
                                 !.post_data_ = <<>>,
                                 !.state_ = "ERROR"],
                      error_code)
       ELSE [j1 EXCEPT !.state_ = "ACQUIRING_TOKEN",
                       !.delayed_tasks =
                           Append(@, [fn |-> "StartUpload", delay |-> delay]),
                       !.tasks_posted = @ + 1]

\* HandleError without upload_fetcher_.reset().
HandleError_KeepsFetcher(job, error_code, delay) ==
    LET j1 == [job EXCEPT !.retry_ = @ + 1, !.last_error_code = error_code]
    IN IF j1.retry_ >= kMaxAttempts
       THEN OnFailure([j1 EXCEPT !.access_token_ = <<>>,
                                 !.post_data_ = <<>>,
                                 !.state_ = "ERROR"],
                      error_code)
       ELSE IF error_code = "AUTHENTICATION_ERROR"
       THEN [j1 EXCEPT !.invalidated = Append(@, j1.access_token_),
                       !.access_token_ = <<>>,
                       !.delayed_tasks =
                           Append(@, [fn |-> "RequestAccessToken", delay |-> delay]),
                       !.tasks_posted = @ + 1]
       ELSE [j1 EXCEPT !.state_ = "ACQUIRING_TOKEN",
                       !.delayed_tasks =
                           Append(@, [fn |-> "StartUpload", delay |-> delay]),
                       !.tasks_posted = @ + 1]

\* HandleError whose AUTHENTICATION_ERROR branch posts no delayed task.
HandleError_AuthNoRetryTask(job, error_code, delay) ==
    LET j1 == [job EXCEPT !.retry_ = @ + 1, !.last_error_code = error_code,
                          !.upload_fetcher_ = <<>>]
    IN IF j1.retry_ >= kMaxAttempts
       THEN OnFailure([j1 EXCEPT !.access_token_ = <<>>,
                                 !.post_data_ = <<>>,
                                 !.state_ = "ERROR"],
                      error_code)
       ELSE IF error_code = "AUTHENTICATION_ERROR"
       THEN [j1 EXCEPT !.invalidated = Append(@, j1.access_token_),
                       !.access_token_ = <<>>]
       ELSE [j1 EXCEPT !.state_ = "ACQUIRING_TOKEN",
                       !.delayed_tasks =
                           Append(@, [fn |-> "StartUpload", delay |-> delay]),
                       !.tasks_posted = @ + 1]

\* HandleError discarding the assembled body on the same-token retry too.
HandleError_RetryDropsBody(job, error_code, delay) ==
    LET j1 == [job EXCEPT !.retry_ = @ + 1, !.last_error_code = error_code,
                          !.upload_fetcher_ = <<>>]
    IN IF j1.retry_ >= kMaxAttempts
       THEN OnFailure([j1 EXCEPT !.access_token_ = <<>>,
                                 !.post_data_ = <<>>,
                                 !.state_ = "ERROR"],
                      error_code)
       ELSE IF error_code = "AUTHENTICATION_ERROR"
       THEN [j1 EXCEPT !.invalidated = Append(@, j1.access_token_),
                       !.access_token_ = <<>>,
                       !.delayed_tasks =
                           Append(@, [fn |-> "RequestAccessToken", delay |-> delay]),
                       !.tasks_posted = @ + 1]
       ELSE [j1 EXCEPT !.state_ = "ACQUIRING_TOKEN",
                       !.post_data_ = <<>>,
                       !.delayed_tasks =
                           Append(@, [fn |-> "StartUpload", delay |-> delay]),
                       !.tasks_posted = @ + 1]

\* HandleError whose AUTHENTICATION_ERROR branch keeps access_token_.
HandleError_AuthKeepsToken(job, error_code, delay) ==
    LET j1 == [job EXCEPT !.retry_ = @ + 1, !.last_error_code = error_code,
                          !.upload_fetcher_ = <<>>]
    IN IF j1.retry_ >= kMaxAttempts
       THEN OnFailure([j1 EXCEPT !.access_token_ = <<>>,
                                 !.post_data_ = <<>>,
                                 !.state_ = "ERROR"],
                      error_code)
       ELSE IF error_code = "AUTHENTICATION_ERROR"
       THEN [j1 EXCEPT !.invalidated = Append(@, j1.access_token_),
                       !.delayed_tasks =
                           Append(@, [fn |-> "RequestAccessToken", delay |-> delay]),
                       !.tasks_posted = @ + 1]
       ELSE [j1 EXCEPT !.state_ = "ACQUIRING_TOKEN",
                       !.delayed_tasks =
                           Append(@, [fn |-> "StartUpload", delay |-> delay]),
                       !.tasks_posted = @ + 1]

\* HandleError posting its tasks with the default delay, whatever
\* g_retry_delay_ms is.
HandleError_DefaultDelay(job, error_code, delay) ==
    LET j1 == [job EXCEPT !.retry_ = @ + 1, !.last_error_code = error_code,
                          !.upload_fetcher_ = <<>>]
    IN IF j1.retry_ >= kMaxAttempts
       THEN OnFailure([j1 EXCEPT !.access_token_ = <<>>,
                                 !.post_data_ = <<>>,
                                 !.state_ = "ERROR"],
                      error_code)
       ELSE IF error_code = "AUTHENTICATION_ERROR"
       THEN [j1 EXCEPT !.invalidated = Append(@, j1.access_token_),
                       !.access_token_ = <<>>,
                       !.delayed_tasks =
                           Append(@, [fn |-> "RequestAccessToken",
                                      delay |-> kDefaultRetryDelayMs]),
                       !.tasks_posted = @ + 1]
       ELSE [j1 EXCEPT !.state_ = "ACQUIRING_TOKEN",
                       !.delayed_tasks =
                           Append(@, [fn |-> "StartUpload",
                                      delay |-> kDefaultRetryDelayMs]),
                       !.tasks_posted = @ + 1]

\* HandleError counting only the failures that are not NETWORK_ERROR.
HandleError_NetworkNotCounted(job, error_code, delay) ==
    LET j1 == [job EXCEPT !.retry_ = IF error_code = "NETWORK_ERROR" THEN @ ELSE @ + 1,
                          !.last_error_code = error_code,
                          !.upload_fetcher_ = <<>>]
    IN IF j1.retry_ >= kMaxAttempts
       THEN OnFailure([j1 EXCEPT !.access_token_ = <<>>,
                                 !.post_data_ = <<>>,
                                 !.state_ = "ERROR"],
                      error_code)
       ELSE IF error_code = "AUTHENTICATION_ERROR"
       THEN [j1 EXCEPT !.invalidated = Append(@, j1.access_token_),
                       !.access_token_ = <<>>,
                       !.delayed_tasks =
                           Append(@, [fn |-> "RequestAccessToken", delay |-> delay]),
                       !.tasks_posted = @ + 1]
       ELSE [j1 EXCEPT !.state_ = "ACQUIRING_TOKEN",
                       !.delayed_tasks =
                           Append(@, [fn |-> "StartUpload", delay |-> delay]),
                       !.tasks_posted = @ + 1]

\* HandleError leaving state_ as it is on the same-token retry.
HandleError_RetryKeepsState(job, error_code, delay) ==
    LET j1 == [job EXCEPT !.retry_ = @ + 1, !.last_error_code = error_code,
                          !.upload_fetcher_ = <<>>]
    IN IF j1.retry_ >= kMaxAttempts
       THEN OnFailure([j1 EXCEPT !.access_token_ = <<>>,
                                 !.post_data_ = <<>>,
                                 !.state_ = "ERROR"],
                      error_code)
       ELSE IF error_code = "AUTHENTICATION_ERROR"
       THEN [j1 EXCEPT !.invalidated = Append(@, j1.access_token_),
                       !.access_token_ = <<>>,
                       !.delayed_tasks =
                           Append(@, [fn |-> "RequestAccessToken", delay |-> delay]),
                       !.tasks_posted = @ + 1]
       ELSE [j1 EXCEPT !.delayed_tasks =
                           Append(@, [fn |-> "StartUpload", delay |-> delay]),
                       !.tasks_posted = @ + 1]

\* HandleError invalidating the token on the terminal failure too.
HandleError_InvalidatesOnTerminal(job, error_code, delay) ==
    LET j1 == [job EXCEPT !.retry_ = @ + 1, !.last_error_code = error_code,
                          !.upload_fetcher_ = <<>>]
    IN IF j1.retry_ >= kMaxAttempts
       THEN OnFailure([j1 EXCEPT !.invalidated =
                                     IF error_code = "AUTHENTICATION_ERROR"
                                     THEN Append(@, j1.access_token_) ELSE @,
                                 !.access_token_ = <<>>,
                                 !.post_data_ = <<>>,
                                 !.state_ = "ERROR"],
                      error_code)
       ELSE IF error_code = "AUTHENTICATION_ERROR"
       THEN [j1 EXCEPT !.invalidated = Append(@, j1.access_token_),
                       !.access_token_ = <<>>,
                       !.delayed_tasks =
                           Append(@, [fn |-> "RequestAccessToken", delay |-> delay]),
                       !.tasks_posted = @ + 1]
       ELSE [j1 EXCEPT !.state_ = "ACQUIRING_TOKEN",
                       !.delayed_tasks =
                           Append(@, [fn |-> "StartUpload", delay |-> delay]),
                       !.tasks_posted = @ + 1]

\* HandleError calling OnFailure before it releases the resources and sets
\* ERROR.
HandleError_NotifyBeforeCleanup(job, error_code, delay) ==
    LET j1 == [job EXCEPT !.retry_ = @ + 1, !.last_error_code = error_code,
                          !.upload_fetcher_ = <<>>]
    IN IF j1.retry_ >= kMaxAttempts
       THEN [OnFailure(j1, error_code) EXCEPT !.access_token_ = <<>>,
                                              !.post_data_ = <<>>,
                                              !.state_ = "ERROR"]
       ELSE IF error_code = "AUTHENTICATION_ERROR"
       THEN [j1 EXCEPT !.invalidated = Append(@, j1.access_token_),
                       !.access_token_ = <<>>,
                       !.delayed_tasks =
                           Append(@, [fn |-> "RequestAccessToken", delay |-> delay]),
                       !.tasks_posted = @ + 1]
       ELSE [j1 EXCEPT !.state_ = "ACQUIRING_TOKEN",
                       !.delayed_tasks =
                           Append(@, [fn |-> "StartUpload", delay |-> delay]),
                       !.tasks_posted = @ + 1]

\* UploadJobImpl::HandleError.  delay is g_retry_delay_ms.
HandleError(job, error_code, delay) ==
    LET j1 == [job EXCEPT !.retry_ = @ + 1, !.last_error_code = error_code,
                          !.upload_fetcher_ = <<>>]
    IN IF j1.retry_ >= kMaxAttempts
       THEN OnFailure([j1 EXCEPT !.access_token_ = <<>>,
                                 !.post_data_ = <<>>,
                                 !.state_ = "ERROR"],
                      error_code)
       ELSE IF error_code = "AUTHENTICATION_ERROR"
       THEN [j1 EXCEPT !.invalidated = Append(@, j1.access_token_),
                       !.access_token_ = <<>>,
                       !.delayed_tasks =
                           Append(@, [fn |-> "RequestAccessToken", delay |-> delay]),
                       !.tasks_posted = @ + 1]
       ELSE [j1 EXCEPT !.state_ = "ACQUIRING_TOKEN",
                       !.delayed_tasks =
                           Append(@, [fn |-> "StartUpload", delay |-> delay]),
                       !.tasks_posted = @ + 1]

\* OnGetTokenSuccess without access_token_request_.reset().
OnGetTokenSuccess_KeepsRequest(job, access_token, boundary) ==
    LET j1 == DCheck(job, job.state_ = "ACQUIRING_TOKEN", "OnGetTokenSuccess:304")
        j2 == [j1 EXCEPT !.access_token_ = access_token]
    IN StartUpload(j2, boundary)

\* OnGetTokenSuccess without caching the token in access_token_.
OnGetTokenSuccess_TokenNotCached(job, access_token, boundary) ==
    LET j1 == DCheck(job, job.state_ = "ACQUIRING_TOKEN", "OnGetTokenSuccess:304")
        j2 == [j1 EXCEPT !.access_token_request_ = <<>>]
    IN StartUpload(j2, boundary)

\* UploadJobImpl::OnGetTokenSuccess
OnGetTokenSuccess(job, access_token, boundary) ==
    LET j1 == DCheck(job, job.state_ = "ACQUIRING_TOKEN", "OnGetTokenSuccess:304")
        j2 == [j1 EXCEPT !.access_token_request_ = <<>>,
                         !.access_token_ = access_token]
    IN StartUpload(j2, boundary)

\* OnGetTokenFailure reporting the failure as a NETWORK_ERROR.
OnGetTokenFailure_NetworkError(job, delay) ==
    LET j1 == DCheck(job, job.state_ = "ACQUIRING_TOKEN", "OnGetTokenFailure:316")
        j2 == [j1 EXCEPT !.access_token_request_ = <<>>]
    IN HandleError(j2, "NETWORK_ERROR", delay)

\* OnGetTokenFailure without access_token_request_.reset().
OnGetTokenFailure_KeepsRequest(job, delay) ==
    LET j1 == DCheck(job, job.state_ = "ACQUIRING_TOKEN", "OnGetTokenFailure:316")
    IN HandleError(j1, "AUTHENTICATION_ERROR", delay)

\* UploadJobImpl::OnGetTokenFailure
OnGetTokenFailure(job, delay) ==
    LET j1 == DCheck(job, job.state_ = "ACQUIRING_TOKEN", "OnGetTokenFailure:316")
        j2 == [j1 EXCEPT !.access_token_request_ = <<>>]
    IN HandleError(j2, "AUTHENTICATION_ERROR", delay)

\* OnURLFetchComplete accepting every 2xx response code.
OnURLFetchComplete_Any2xx(job, status_is_success, response_code, delay) ==
    LET j1 == DCheck(job, job.state_ = "UPLOADING", "OnURLFetchComplete:363")
    IN IF ~status_is_success
       THEN HandleError(j1, "NETWORK_ERROR", delay)
       ELSE IF response_code \div 100 = 2
       THEN OnSuccess([j1 EXCEPT !.upload_fetcher_ = <<>>,
                                 !.access_token_ = <<>>,
                                 !.post_data_ = <<>>,
                                 !.state_ = "SUCCESS"])
       ELSE IF response_code = HTTP_UNAUTHORIZED
       THEN HandleError(j1, "AUTHENTICATION_ERROR", delay)
       ELSE HandleError(j1, "SERVER_ERROR", delay)

\* OnURLFetchComplete looking at the response code before the transport
\* status.
OnURLFetchComplete_CodeBeforeStatus(job, status_is_success, response_code, delay) ==
    LET j1 == DCheck(job, job.state_ = "UPLOADING", "OnURLFetchComplete:363")
    IN IF response_code = HTTP_UNAUTHORIZED
       THEN HandleError(j1, "AUTHENTICATION_ERROR", delay)
       ELSE IF ~status_is_success
       THEN HandleError(j1, "NETWORK_ERROR", delay)
       ELSE IF response_code = HTTP_OK
       THEN OnSuccess([j1 EXCEPT !.upload_fetcher_ = <<>>,
                                 !.access_token_ = <<>>,
                                 !.post_data_ = <<>>,
                                 !.state_ = "SUCCESS"])
       ELSE HandleError(j1, "SERVER_ERROR", delay)

\* UploadJobImpl::OnURLFetchComplete.  status_is_success and response_code
\* are source->GetStatus().is_success() and source->GetResponseCode().
OnURLFetchComplete(job, status_is_success, response_code, delay) ==
    LET j1 == DCheck(job, job.state_ = "UPLOADING", "OnURLFetchComplete:363")
    IN IF ~status_is_success
       THEN HandleError(j1, "NETWORK_ERROR", delay)
       ELSE IF response_code = HTTP_OK
       THEN OnSuccess([j1 EXCEPT !.upload_fetcher_ = <<>>,
                                 !.access_token_ = <<>>,
                                 !.post_data_ = <<>>,
                                 !.state_ = "SUCCESS"])
       ELSE IF response_code = HTTP_UNAUTHORIZED
       THEN HandleError(j1, "AUTHENTICATION_ERROR", delay)
       ELSE HandleError(j1, "SERVER_ERROR", delay)

\* AddDataSegment without the state guard.
AddDataSegment_NoGuard(job, name, filename, header_entries, data) ==
    [job EXCEPT !.data_segments_ =
         Append(@, DataSegment(name, filename, data, header_entries))]

\* UploadJobImpl::AddDataSegment.  The DCHECK_EQ(IDLE, state_) of a misplaced
\* call is the caller's error; the early return that follows it is what the
\* job does then.
AddDataSegment(job, name, filename, header_entries, data) ==
    IF job.state_ # "IDLE" THEN job
    ELSE [job EXCEPT !.data_segments_ =
              Append(@, DataSegment(name, filename, data, header_entries))]

\* Start refusing only a finished job (SUCCESS or ERROR).
Start_RejectsOnlyTerminal(job) ==
    IF job.state_ \in {"SUCCESS", "ERROR"} THEN job
    ELSE RequestAccessToken(
             [DCheck(job, job.retry_ = 0, "Start:181") EXCEPT !.started = TRUE])

\* Start without the state guard.
Start_NoGuard(job) ==
    RequestAccessToken(
        [DCheck(job, job.retry_ = 0, "Start:181") EXCEPT !.started = TRUE])

\* Start checking the segment names itself, before any token is requested.
Start_ChecksNames(job) ==
    IF job.state_ # "IDLE" THEN job
    ELSE IF ~NamesUnique(job.data_segments_, {})
    THEN [job EXCEPT !.started = TRUE, !.assembly_failed = TRUE,
                     !.state_ = "ERROR"]
    ELSE RequestAccessToken(
             [DCheck(job, job.retry_ = 0, "Start:181") EXCEPT !.started = TRUE])

\* UploadJobImpl::Start, with the same early return on a misplaced call.
Start(job) ==
    IF job.state_ # "IDLE" THEN job
    ELSE RequestAccessToken(
             [DCheck(job, job.retry_ = 0, "Start:181") EXCEPT !.started = TRUE])

\* UploadJobImpl::~UploadJobImpl: the members are destroyed, which cancels the
\* token request and the fetcher and invalidates the weak pointers bound
\* into the delayed tasks.
Destroy(job) ==
    [job EXCEPT !.alive = FALSE,
                !.access_token_request_ = <<>>,
                !.upload_fetcher_ = <<>>]

\* The delayed task bound to the raw this pointer: it runs the method
\* whether or not the job was destroyed.
RunTask_Unretained(job, task, boundary) ==
    IF task.fn = "RequestAccessToken" THEN RequestAccessToken(job)
    ELSE StartUpload(job, boundary)

\* A delayed task posted by HandleError runs: the bound method is called
\* unless its weak pointer was invalidated.
RunTask(job, task, boundary) ==
    IF ~job.alive THEN job
    ELSE IF task.fn = "RequestAccessToken" THEN RequestAccessToken(job)
    ELSE StartUpload(job, boundary)

RemoveAt(seq, i) ==
    SubSeq(seq, 1, i - 1) \o SubSeq(seq, i + 1, Len(seq))

(***************************************************************************)
(* The steps of the system: calls of the owner, callbacks of the token     *)
(* service and of the URL fetcher, and the task runner running a task.     *)
(***************************************************************************)
JobIds ==
    {1}

Init ==
    /\ \E valid \in [JobIds -> BOOLEAN] :
          jobs = [j \in JobIds |-> UploadJobImpl(valid[j])]
    /\ g_retry_delay_ms = kDefaultRetryDelayMs

\* The owner calls AddDataSegment.
CallAddDataSegment ==
    \E j \in DOMAIN jobs, s \in SegmentChoices :
        /\ jobs[j].alive
        /\ Len(jobs[j].data_segments_) < MaxSegments
        /\ jobs' = [jobs EXCEPT ![j] =
               AddDataSegment(jobs[j], s.name, s.filename, s.header_entries, s.data)]
        /\ UNCHANGED g_retry_delay_ms

\* The owner calls Start.
CallStart ==
    \E j \in DOMAIN jobs :
        /\ jobs[j].alive
        /\ jobs' = [jobs EXCEPT ![j] = Start(jobs[j])]
        /\ UNCHANGED g_retry_delay_ms

\* UploadJobImpl::SetRetryDelayForTesting (static); CHECK_GE aborts the
\* process on a negative delay.
SetRetryDelayForTesting ==
    \E retry_delay_ms \in RetryDelays :
        /\ retry_delay_ms >= 0
        /\ g_retry_delay_ms' = retry_delay_ms
        /\ UNCHANGED jobs

\* The token service answers the outstanding request with a token.
TokenSuccess ==
    \E j \in DOMAIN jobs, access_token \in Tokens, boundary \in Boundaries :
        /\ jobs[j].access_token_request_ # <<>>
        /\ jobs' = [jobs EXCEPT ![j] =
               OnGetTokenSuccess(
                   [jobs[j] EXCEPT !.tokens_granted = Append(@, access_token)],
                   access_token, boundary)]
        /\ UNCHANGED g_retry_delay_ms

\* A token failure with retry_ a static member: it counts for every job.
TokenFailure_SharedRetryCount ==
    \E j \in DOMAIN jobs :
        /\ jobs[j].access_token_request_ # <<>>
        /\ jobs' = [k \in DOMAIN jobs |->
               IF k = j THEN OnGetTokenFailure(jobs[j], g_retry_delay_ms)
               ELSE [jobs[k] EXCEPT !.retry_ = @ + 1]]
        /\ UNCHANGED g_retry_delay_ms

\* The token service answers the outstanding request with an error.
TokenFailure ==
    \E j \in DOMAIN jobs :
        /\ jobs[j].access_token_request_ # <<>>
        /\ jobs' = [jobs EXCEPT ![j] = OnGetTokenFailure(jobs[j], g_retry_delay_ms)]
        /\ UNCHANGED g_retry_delay_ms

\* The started URL fetcher completes.
URLFetchComplete ==
    \E j \in DOMAIN jobs, status_is_success \in BOOLEAN,
       response_code \in ResponseCodes :
        /\ jobs[j].upload_fetcher_ # <<>>
        /\ jobs' = [jobs EXCEPT ![j] =
               OnURLFetchComplete(jobs[j], status_is_success, response_code,
                                  g_retry_delay_ms)]
        /\ UNCHANGED g_retry_delay_ms

\* The task runner runs one of the posted delayed tasks.
RunDelayedTask ==
    \E j \in DOMAIN jobs, boundary \in Boundaries :
        \E i \in 1..Len(jobs[j].delayed_tasks) :
            /\ jobs' = [jobs EXCEPT ![j] =
                   RunTask([jobs[j] EXCEPT !.delayed_tasks = RemoveAt(@, i)],
                           jobs[j].delayed_tasks[i], boundary)]
            /\ UNCHANGED g_retry_delay_ms

\* The owner destroys the job.
DestroyJob ==
    \E j \in DOMAIN jobs :
        /\ jobs[j].alive
        /\ jobs' = [jobs EXCEPT ![j] = Destroy(jobs[j])]
        /\ UNCHANGED g_retry_delay_ms

Next ==
    \/ CallAddDataSegment
    \/ CallStart
    \/ SetRetryDelayForTesting
    \/ TokenSuccess
    \/ TokenFailure
    \/ URLFetchComplete
    \/ RunDelayedTask
    \/ DestroyJob

Spec == Init /\ [][Next]_vars

\* The steps while the owner keeps the job (no destruction), with every
\* outstanding token request answered, every started fetch completed and
\* every posted delayed task run in the end.
NextWhileOwned ==
    \/ CallAddDataSegment
    \/ CallStart
    \/ SetRetryDelayForTesting
    \/ TokenSuccess
    \/ TokenFailure
    \/ URLFetchComplete
    \/ RunDelayedTask

FairSpec ==
    /\ Init
    /\ [][NextWhileOwned]_vars
    /\ WF_vars(TokenSuccess \/ TokenFailure)
    /\ WF_vars(URLFetchComplete)
    /\ WF_vars(RunDelayedTask)

\* The steps up to the first POST, with the wider choice of segments.
CallAddAssemblySegment ==
    \E j \in DOMAIN jobs, s \in AssemblySegmentChoices :
        /\ jobs[j].alive
        /\ Len(jobs[j].data_segments_) < MaxAssemblySegments
        /\ jobs' = [jobs EXCEPT ![j] =
               AddDataSegment(jobs[j], s.name, s.filename, s.header_entries, s.data)]
        /\ UNCHANGED g_retry_delay_ms

AssemblyInit ==
    /\ jobs = [j \in JobIds |-> UploadJobImpl(TRUE)]
    /\ g_retry_delay_ms = kDefaultRetryDelayMs

AssemblyNext ==
    \/ CallAddAssemblySegment
    \/ CallStart
    \/ TokenSuccess

AssemblySpec == AssemblyInit /\ [][AssemblyNext]_vars

\* Two jobs of one process, constructed with valid URLs, run interleaved;
\* g_retry_delay_ms is the one static variable of the file.
TwoJobIds ==
    {1, 2}

TwoJobsInit ==
    /\ jobs = [j \in TwoJobIds |-> UploadJobImpl(TRUE)]
    /\ g_retry_delay_ms = kDefaultRetryDelayMs

RetriesWithinBound ==
    \A j \in DOMAIN jobs : jobs[j].retry_ <= MaxTwoJobRetries

TwoJobsNext ==
    \/ CallStart
    \/ SetRetryDelayForTesting
    \/ TokenSuccess
    \/ TokenFailure /\ RetriesWithinBound'
    \/ URLFetchComplete /\ RetriesWithinBound'
    \/ RunDelayedTask

TwoJobsSpec == TwoJobsInit /\ [][TwoJobsNext]_vars

(***************************************************************************)
(* Properties.                                                             *)
(***************************************************************************)
OnFailureCall(error_code) ==
    [cb |-> "OnFailure", error_code |-> error_code]
OnSuccessCall ==
    [cb |-> "OnSuccess", error_code |-> "NONE"]

Terminal(job) ==
    job.state_ \in {"SUCCESS", "ERROR"}

\* Nothing asynchronous is pending for the job.
NothingPending(job) ==
    /\ job.access_token_request_ = <<>>
    /\ job.upload_fetcher_ = <<>>
    /\ job.delayed_tasks = <<>>

\* C1: a job issues at most 4 HTTP POSTs, and after the 4th HandleError
\* (retry_ = 4) it is in ERROR with no retry scheduled and nothing pending,
\* at most 3 delayed tasks having been posted in its life.
C1_AtMostFourPosts ==
    \A j \in DOMAIN jobs :
        /\ Len(jobs[j].posts) <= 4
        /\ jobs[j].retry_ <= 4
        /\ jobs[j].retry_ = 4 =>
              /\ jobs[j].state_ = "ERROR"
              /\ NothingPending(jobs[j])
              /\ jobs[j].tasks_posted = 3

\* Four POSTs were issued, the failures were of mixed kinds (one invalidated
\* a token, the last was a NETWORK_ERROR) and the 4th ended the job.
C1_Witness ==
    \E j \in DOMAIN jobs :
        /\ Len(jobs[j].posts) = 4
        /\ jobs[j].retry_ = 4
        /\ Len(jobs[j].invalidated) = 1
        /\ jobs[j].delegate_calls = <<OnFailureCall("NETWORK_ERROR")>>

\* C2: the delegate receives at most one callback in the life of a job.
C2_AtMostOneCallback ==
    \A j \in DOMAIN jobs :
        Len(jobs[j].delegate_calls) <= 1

\* OnSuccess was delivered after three failed attempts.
C2_Witness ==
    \E j \in DOMAIN jobs :
        /\ jobs[j].delegate_calls = <<OnSuccessCall>>
        /\ jobs[j].retry_ = 3

\* C3: once state_ is SUCCESS or ERROR no step changes it, and in such a
\* state no token request, fetcher or delayed task is pending.
C3_TerminalAbsorbing ==
    /\ [](\A j \in DOMAIN jobs : Terminal(jobs[j]) => NothingPending(jobs[j]))
    /\ [][\A j \in DOMAIN jobs :
            Terminal(jobs[j]) => jobs'[j].state_ = jobs[j].state_]_vars

\* A live job in ERROR after retries, on which Start and AddDataSegment can
\* still be called.
C3_Witness ==
    \E j \in DOMAIN jobs :
        /\ jobs[j].alive
        /\ jobs[j].state_ = "ERROR"
        /\ jobs[j].retry_ = 4
        /\ ENABLED CallStart
        /\ ENABLED CallAddDataSegment

Last(seq) ==
    seq[Len(seq)]

\* C4: a fetch completion leads to SUCCESS and OnSuccess exactly when the
\* transport succeeded and the response code is 200 (not for 201, 204 or any
\* other code), SUCCESS is entered by no other step, and on that step the
\* token is cleared, the body discarded and the fetcher released.
C4_SuccessExactlyOn200 ==
    /\ [](\A j \in DOMAIN jobs :
            jobs[j].upload_fetcher_ # <<>> =>
              \A s \in BOOLEAN, c \in ResponseCodes :
                LET r == OnURLFetchComplete(jobs[j], s, c, g_retry_delay_ms)
                IN /\ (r.state_ = "SUCCESS") <=> (s /\ c = 200)
                   /\ (OnSuccessCall \in {r.delegate_calls[i] :
                                             i \in 1..Len(r.delegate_calls)})
                         <=> (s /\ c = 200)
                   /\ (s /\ c = 200) =>
                         /\ r.delegate_calls = <<OnSuccessCall>>
                         /\ r.access_token_ = <<>>
                         /\ r.post_data_ = <<>>
                         /\ r.upload_fetcher_ = <<>>)
    /\ [][\A j \in DOMAIN jobs :
            (\/ jobs'[j].state_ = "SUCCESS" /\ jobs[j].state_ # "SUCCESS"
             \/ jobs'[j].delegate_calls # jobs[j].delegate_calls
                  /\ Last(jobs'[j].delegate_calls) = OnSuccessCall)
            => /\ jobs[j].upload_fetcher_ # <<>>
               /\ jobs'[j] = OnURLFetchComplete(jobs[j], TRUE, 200,
                                                 g_retry_delay_ms)]_vars

\* The first POST of a job returned 200.
C4_Witness ==
    \E j \in DOMAIN jobs :
        /\ jobs[j].state_ = "SUCCESS"
        /\ jobs[j].retry_ = 0
        /\ Len(jobs[j].posts) = 1
        /\ jobs[j].delegate_calls = <<OnSuccessCall>>

\* The error kind the specification assigns to a failed fetch completion.
ClaimedErrorKind(status_is_success, response_code) ==
    IF ~status_is_success THEN "NETWORK_ERROR"
    ELSE IF response_code = 401 THEN "AUTHENTICATION_ERROR"
    ELSE "SERVER_ERROR"

TerminalFailure(r, error_code) ==
    /\ r.retry_ = 4
    /\ r.access_token_ = <<>>
    /\ r.post_data_ = <<>>
    /\ r.state_ = "ERROR"
    /\ r.delegate_calls = <<OnFailureCall(error_code)>>

\* C5: the 4th failure, whatever preceded it, clears the token, discards the
\* body, sets ERROR and calls OnFailure once with the kind of that failure.
C5_TerminalFailure ==
    \A j \in DOMAIN jobs :
        /\ (jobs[j].retry_ = 3 /\ jobs[j].access_token_request_ # <<>>) =>
              TerminalFailure(OnGetTokenFailure(jobs[j], g_retry_delay_ms),
                              "AUTHENTICATION_ERROR")
        /\ (jobs[j].retry_ = 3 /\ jobs[j].upload_fetcher_ # <<>>) =>
              \A s \in BOOLEAN, c \in ResponseCodes :
                  ~(s /\ c = 200) =>
                      TerminalFailure(
                          OnURLFetchComplete(jobs[j], s, c, g_retry_delay_ms),
                          ClaimedErrorKind(s, c))
        /\ jobs[j].retry_ = 4 =>
              \E e \in ErrorCodes : TerminalFailure(jobs[j], e)

\* Three 401 responses (three tokens invalidated) and then a 500.
C5_Witness ==
    \E j \in DOMAIN jobs :
        /\ jobs[j].retry_ = 4
        /\ Len(jobs[j].posts) = 4
        /\ Len(jobs[j].invalidated) = 3
        /\ jobs[j].delegate_calls = <<OnFailureCall("SERVER_ERROR")>>

\* What a non-terminal AUTHENTICATION_ERROR does to job, giving r.
AuthRetry(job, r) ==
    /\ r.invalidated = Append(job.invalidated, job.access_token_)
    /\ r.access_token_ = <<>>
    /\ r.delayed_tasks =
          <<[fn |-> "RequestAccessToken", delay |-> g_retry_delay_ms]>>
    /\ r.tasks_posted = job.tasks_posted + 1
    /\ r.token_requests = job.token_requests
    /\ r.access_token_request_ = <<>>
    /\ r.upload_fetcher_ = <<>>
    /\ r.posts = job.posts
    /\ ~Terminal(r)

\* C6: a token failure or a 401 with attempts remaining invalidates the
\* cached token, clears the local one and posts one delayed task; a token
\* request is issued only when that task runs (or by Start); while the job
\* has no token no POST is issued except by a successful token response, and
\* that POST carries the token just returned.
C6_AuthRetry ==
    /\ [](\A j \in DOMAIN jobs :
            /\ (jobs[j].retry_ < 3 /\ jobs[j].access_token_request_ # <<>>) =>
                  AuthRetry(jobs[j], OnGetTokenFailure(jobs[j], g_retry_delay_ms))
            /\ (jobs[j].retry_ < 3 /\ jobs[j].upload_fetcher_ # <<>>) =>
                  AuthRetry(jobs[j], OnURLFetchComplete(jobs[j], TRUE, 401,
                                                        g_retry_delay_ms))
            /\ jobs[j].access_token_ = <<>> => jobs[j].upload_fetcher_ = <<>>)
    /\ [][\A j \in DOMAIN jobs :
            jobs'[j].token_requests # jobs[j].token_requests =>
              \/ jobs[j].state_ = "IDLE"
              \/ /\ Len(jobs[j].delayed_tasks) = 1
                 /\ jobs[j].delayed_tasks[1].fn = "RequestAccessToken"
                 /\ jobs'[j].delayed_tasks = <<>>]_vars
    /\ [][\A j \in DOMAIN jobs :
            (jobs'[j].posts # jobs[j].posts /\ jobs[j].access_token_ = <<>>) =>
              /\ jobs[j].access_token_request_ # <<>>
              /\ Len(jobs'[j].tokens_granted) = Len(jobs[j].tokens_granted) + 1
              /\ jobs'[j].posts =
                    Append(jobs[j].posts, Last(jobs'[j].posts))
              /\ Last(jobs'[j].posts).extra_header =
                    kAuthorizationHeaderPrefix \o Last(jobs'[j].tokens_granted)]_vars

\* A POST with token "t" got a 401, "t" was invalidated, the token service
\* then returned "u" and the second POST carries "u".
C6_Witness ==
    \E j \in DOMAIN jobs :
        /\ jobs[j].invalidated = << <<"t">> >>
        /\ jobs[j].tokens_granted = << <<"t">>, <<"u">> >>
        /\ Len(jobs[j].posts) = 2
        /\ jobs[j].posts[1].extra_header = kAuthorizationHeaderPrefix \o <<"t">>
        /\ jobs[j].posts[2].extra_header = kAuthorizationHeaderPrefix \o <<"u">>

\* What a non-terminal NETWORK_ERROR or SERVER_ERROR does to job, giving r.
SameTokenRetry(job, r) ==
    /\ r.delayed_tasks = <<[fn |-> "StartUpload", delay |-> g_retry_delay_ms]>>
    /\ r.tasks_posted = job.tasks_posted + 1
    /\ r.access_token_ = job.access_token_
    /\ r.access_token_ # <<>>
    /\ r.invalidated = job.invalidated
    /\ r.token_requests = job.token_requests
    /\ r.access_token_request_ = <<>>
    /\ r.upload_fetcher_ = <<>>
    /\ r.posts = job.posts
    /\ r.post_data_ = job.post_data_
    /\ r.mime_boundary_ = job.mime_boundary_
    /\ r.boundary_calls = job.boundary_calls

\* What the delayed StartUpload does to job, giving r: the last POST again.
Reposted(job, r) ==
    /\ r.posts = Append(job.posts, Last(job.posts))
    /\ r.upload_fetcher_ = <<Last(job.posts)>>
    /\ r.delayed_tasks = <<>>
    /\ r.access_token_ = job.access_token_
    /\ r.invalidated = job.invalidated
    /\ r.token_requests = job.token_requests
    /\ r.access_token_request_ = <<>>
    /\ r.post_data_ = job.post_data_
    /\ r.mime_boundary_ = job.mime_boundary_
    /\ r.boundary_calls = job.boundary_calls

\* C7: a NETWORK_ERROR or SERVER_ERROR with attempts remaining posts one
\* delayed task; when it runs the same POST (same token, same boundary, same
\* body) is issued again with no token request, no invalidation and no call
\* of the boundary generator; a 200 for that POST gives SUCCESS and exactly
\* one OnSuccess.
C7_SameTokenRetry ==
    \A j \in DOMAIN jobs :
        /\ (jobs[j].retry_ < 3 /\ jobs[j].upload_fetcher_ # <<>>) =>
              \A s \in BOOLEAN, c \in ResponseCodes :
                  (~(s /\ c = 200) /\ ClaimedErrorKind(s, c) # "AUTHENTICATION_ERROR")
                  => SameTokenRetry(jobs[j],
                         OnURLFetchComplete(jobs[j], s, c, g_retry_delay_ms))
        /\ (/\ jobs[j].alive
            /\ jobs[j].delayed_tasks # <<>>
            /\ jobs[j].delayed_tasks[1].fn = "StartUpload") =>
              \A b \in Boundaries :
                  LET r == RunTask([jobs[j] EXCEPT !.delayed_tasks = Tail(@)],
                                   jobs[j].delayed_tasks[1], b)
                      f == OnURLFetchComplete(r, TRUE, 200, g_retry_delay_ms)
                  IN /\ Reposted(jobs[j], r)
                     /\ f.state_ = "SUCCESS"
                     /\ f.delegate_calls = <<OnSuccessCall>>

\* A 500 (no token invalidated, one token request in all) was followed by a
\* second, identical POST that returned 200.
C7_Witness ==
    \E j \in DOMAIN jobs :
        /\ jobs[j].state_ = "SUCCESS"
        /\ jobs[j].retry_ = 1
        /\ jobs[j].token_requests = 1
        /\ jobs[j].invalidated = <<>>
        /\ jobs[j].boundary_calls = 1
        /\ Len(jobs[j].posts) = 2
        /\ jobs[j].posts[1] = jobs[j].posts[2]
        /\ jobs[j].delegate_calls = <<OnSuccessCall>>

\* C8: a started job in ERROR has delivered exactly one OnFailure and
\* nothing else, and a job in SUCCESS exactly one OnSuccess and nothing else.
C8_TerminalSignalled ==
    \A j \in DOMAIN jobs :
        /\ (jobs[j].started /\ jobs[j].state_ = "ERROR") =>
              \E e \in ErrorCodes : jobs[j].delegate_calls = <<OnFailureCall(e)>>
        /\ jobs[j].state_ = "SUCCESS" =>
              jobs[j].delegate_calls = <<OnSuccessCall>>

\* Two segments of the list share a name.
HasDuplicateName(data_segments) ==
    \E i, k \in 1..Len(data_segments) :
        i < k /\ data_segments[i].name_ = data_segments[k].name_

\* C9: with two segments sharing a name, wherever they are in the list, the
\* first successful token response sends the job to ERROR: retry_ is not
\* incremented, no task is posted, the boundary generator is not called,
\* mime_boundary_ and post_data_ stay unset and no POST is ever issued.
C9_DuplicateNameFails ==
    \A j \in DOMAIN jobs :
        /\ HasDuplicateName(jobs[j].data_segments_) =>
              /\ jobs[j].posts = <<>>
              /\ jobs[j].boundary_calls = 0
              /\ jobs[j].mime_boundary_ = <<>>
              /\ jobs[j].post_data_ = <<>>
        /\ (/\ HasDuplicateName(jobs[j].data_segments_)
            /\ jobs[j].access_token_request_ # <<>>) =>
              \A t \in Tokens, b \in Boundaries :
                  LET r == OnGetTokenSuccess(jobs[j], t, b)
                  IN /\ r.state_ = "ERROR"
                     /\ r.assembly_failed
                     /\ r.retry_ = jobs[j].retry_
                     /\ r.tasks_posted = jobs[j].tasks_posted
                     /\ NothingPending(r)
                     /\ r.posts = <<>>
                     /\ r.boundary_calls = 0
                     /\ r.mime_boundary_ = <<>>
                     /\ r.post_data_ = <<>>
                     /\ r.data_segments_ = jobs[j].data_segments_
        /\ jobs[j].assembly_failed =>
              /\ HasDuplicateName(jobs[j].data_segments_)
              /\ jobs[j].state_ = "ERROR"
              /\ NothingPending(jobs[j])

\* Assembly failed on a list whose first and third segments share a name,
\* after one failed token request.
C9_Witness ==
    \E j \in DOMAIN jobs :
        /\ jobs[j].assembly_failed
        /\ jobs[j].retry_ = 1
        /\ Len(jobs[j].data_segments_) = 3
        /\ jobs[j].data_segments_[1].name_ = jobs[j].data_segments_[3].name_
        /\ jobs[j].data_segments_[1].name_ # jobs[j].data_segments_[2].name_

\* C10: a job issues at most 4 token requests; while no token request has
\* succeeded it issues no POST and never calls OnSuccess, each failure is
\* followed by exactly one further request until the 4th, and after the 4th
\* failure it is in ERROR with OnFailure(AUTHENTICATION_ERROR) called once.
C10_AllTokenRequestsFail ==
    \A j \in DOMAIN jobs :
        /\ jobs[j].token_requests <= 4
        /\ jobs[j].tokens_granted = <<>> =>
              /\ jobs[j].posts = <<>>
              /\ jobs[j].delegate_calls \in
                    {<<>>, <<OnFailureCall("AUTHENTICATION_ERROR")>>}
              /\ (jobs[j].started /\ jobs[j].state_ = "ERROR") <=>
                    jobs[j].retry_ = 4
              /\ jobs[j].retry_ = 4 =>
                    /\ jobs[j].token_requests = 4
                    /\ jobs[j].delegate_calls =
                          <<OnFailureCall("AUTHENTICATION_ERROR")>>
              /\ (jobs[j].started /\ jobs[j].alive /\ jobs[j].retry_ < 4) =>
                    \/ /\ jobs[j].access_token_request_ # <<>>
                       /\ jobs[j].delayed_tasks = <<>>
                       /\ jobs[j].token_requests = jobs[j].retry_ + 1
                    \/ /\ jobs[j].access_token_request_ = <<>>
                       /\ Len(jobs[j].delayed_tasks) = 1
                       /\ jobs[j].delayed_tasks[1].fn = "RequestAccessToken"
                       /\ jobs[j].token_requests = jobs[j].retry_

\* Four token requests were issued and all four failed.
C10_Witness ==
    \E j \in DOMAIN jobs :
        /\ jobs[j].state_ = "ERROR"
        /\ jobs[j].token_requests = 4
        /\ jobs[j].tokens_granted = <<>>
        /\ jobs[j].posts = <<>>
        /\ jobs[j].delegate_calls = <<OnFailureCall("AUTHENTICATION_ERROR")>>

\* C11: AddDataSegment called in any state other than IDLE returns the job
\* as it was: state, segments, body, boundary, token, retry_, pending
\* requests and everything already sent are unchanged.
C11_AddDataSegmentOutsideIdle ==
    \A j \in DOMAIN jobs :
        jobs[j].state_ # "IDLE" =>
            \A s \in SegmentChoices :
                AddDataSegment(jobs[j], s.name, s.filename, s.header_entries,
                               s.data) = jobs[j]

\* AddDataSegment can be called on a live job whose second POST is in
\* flight.
C11_Witness ==
    \E j \in DOMAIN jobs :
        /\ jobs[j].alive
        /\ jobs[j].state_ = "UPLOADING"
        /\ Len(jobs[j].posts) = 2
        /\ ENABLED CallAddDataSegment

\* C12: Start called in any state other than IDLE returns the job as it was
\* (no token request, retry_ kept); no step leads back to IDLE, and a job on
\* which Start took effect is never in IDLE again.
C12_StartOnlyFromIdle ==
    /\ [](\A j \in DOMAIN jobs :
            /\ jobs[j].state_ # "IDLE" => Start(jobs[j]) = jobs[j]
            /\ jobs[j].started => jobs[j].state_ # "IDLE")
    /\ [][\A j \in DOMAIN jobs :
            jobs[j].state_ # "IDLE" => jobs'[j].state_ # "IDLE"]_vars

\* Start can be called on a live job that waits for its delayed retry.
C12_Witness ==
    \E j \in DOMAIN jobs :
        /\ jobs[j].alive
        /\ jobs[j].started
        /\ jobs[j].retry_ = 2
        /\ Len(jobs[j].delayed_tasks) = 1
        /\ ENABLED CallStart

\* C13: a job constructed with an invalid URL stays exactly as constructed
\* (ERROR, no segment, no token request, no POST, no task, no callback)
\* until it is destroyed.
C13_InvalidUrlInert ==
    \A j \in DOMAIN jobs :
        ~jobs[j].upload_url_valid =>
            /\ jobs[j].state_ = "ERROR"
            /\ jobs[j].token_requests = 0
            /\ jobs[j].posts = <<>>
            /\ jobs[j].tasks_posted = 0
            /\ jobs[j].data_segments_ = <<>>
            /\ jobs[j].delegate_calls = <<>>
            /\ NothingPending(jobs[j])
            /\ ~jobs[j].started

\* A live job with an invalid URL, on which AddDataSegment and Start can be
\* called.
C13_Witness ==
    \E j \in DOMAIN jobs :
        /\ ~jobs[j].upload_url_valid
        /\ jobs[j].alive
        /\ ENABLED CallAddDataSegment
        /\ ENABLED CallStart

\* C14: RequestAccessToken never runs while a token request is outstanding
\* and a fetcher is never created while one is in flight, so at most one
\* request of each kind is pending.
C14_OneRequestOfEachKind ==
    /\ [](\A j \in DOMAIN jobs :
            "RequestAccessToken:195" \notin jobs[j].dcheck_failed)
    /\ [][\A j \in DOMAIN jobs :
            /\ jobs'[j].token_requests # jobs[j].token_requests =>
                  /\ jobs[j].access_token_request_ = <<>>
                  /\ jobs'[j].token_requests = jobs[j].token_requests + 1
            /\ jobs'[j].posts # jobs[j].posts =>
                  /\ jobs[j].upload_fetcher_ = <<>>
                  /\ Len(jobs'[j].posts) = Len(jobs[j].posts) + 1]_vars

\* The third POST of a job is in flight, after a second token request.
C14_Witness ==
    \E j \in DOMAIN jobs :
        /\ jobs[j].upload_fetcher_ # <<>>
        /\ Len(jobs[j].posts) = 3
        /\ jobs[j].token_requests = 2

\* The number of asynchronous operations pending for the job.
PendingCount(job) ==
    Len(job.access_token_request_) + Len(job.upload_fetcher_)
    + Len(job.delayed_tasks)

\* C15: at most one of {token request, POST, delayed task} is pending; a
\* step that assembles the body or starts a POST begins with no POST in
\* flight.
C15_StrictlySequential ==
    /\ [](\A j \in DOMAIN jobs : PendingCount(jobs[j]) <= 1)
    /\ [][\A j \in DOMAIN jobs :
            (\/ jobs'[j].boundary_calls # jobs[j].boundary_calls
             \/ jobs'[j].assembly_failed # jobs[j].assembly_failed
             \/ jobs'[j].posts # jobs[j].posts)
            => /\ jobs[j].upload_fetcher_ = <<>>
               /\ PendingCount(jobs[j]) = 1]_vars

\* A retry delay is pending after a failed POST, and nothing else.
C15_Witness ==
    \E j \in DOMAIN jobs :
        /\ jobs[j].alive
        /\ Len(jobs[j].delayed_tasks) = 1
        /\ jobs[j].delayed_tasks[1].fn = "StartUpload"
        /\ PendingCount(jobs[j]) = 1
        /\ jobs[j].retry_ = 3

\* C16: a destroyed job has no token request and no fetcher, and no step
\* changes anything of it (state, token requests, POSTs, invalidations,
\* delegate calls); a delayed task that was pending only leaves the queue.
C16_DestroyedJobInert ==
    /\ [](\A j \in DOMAIN jobs :
            ~jobs[j].alive =>
                /\ jobs[j].access_token_request_ = <<>>
                /\ jobs[j].upload_fetcher_ = <<>>)
    /\ [][\A j \in DOMAIN jobs :
            ~jobs[j].alive =>
                [jobs'[j] EXCEPT !.delayed_tasks = jobs[j].delayed_tasks]
                    = jobs[j]]_vars

\* The job was destroyed during its first retry wait (after a failed token
\* request) and the delayed task has since run: no second token request.
C16_Witness ==
    \E j \in DOMAIN jobs :
        /\ ~jobs[j].alive
        /\ jobs[j].tasks_posted = 1
        /\ jobs[j].delayed_tasks = <<>>
        /\ jobs[j].token_requests = 1
        /\ jobs[j].posts = <<>>

\* C17: when every outstanding token request and fetch completes and every
\* delayed task runs, a job on which Start took effect reaches SUCCESS or
\* ERROR.
C17_EventuallyTerminal ==
    \A j \in JobIds :
        jobs[j].started ~> Terminal(jobs[j])

\* A job reached SUCCESS after three retries, the last two with a new token.
C17_Witness ==
    \E j \in DOMAIN jobs :
        /\ jobs[j].started
        /\ jobs[j].state_ = "SUCCESS"
        /\ jobs[j].retry_ = 3
        /\ jobs[j].token_requests = 3

\* C18: a failed token request is handled as AUTHENTICATION_ERROR; a fetch
\* completion whose transport status is not success as NETWORK_ERROR whatever
\* its response code; a transport-successful 401 as AUTHENTICATION_ERROR; a
\* transport-successful code other than 200 and 401 as SERVER_ERROR; a
\* transport-successful 200 is no failure.
C18_ErrorClassification ==
    \A j \in DOMAIN jobs :
        /\ jobs[j].access_token_request_ # <<>> =>
              LET r == OnGetTokenFailure(jobs[j], g_retry_delay_ms)
              IN /\ r.last_error_code = "AUTHENTICATION_ERROR"
                 /\ r.retry_ = jobs[j].retry_ + 1
        /\ jobs[j].upload_fetcher_ # <<>> =>
              \A s \in BOOLEAN, c \in ResponseCodes :
                  LET r == OnURLFetchComplete(jobs[j], s, c, g_retry_delay_ms)
                      kind == IF ~s THEN "NETWORK_ERROR"
                              ELSE IF c = 401 THEN "AUTHENTICATION_ERROR"
                              ELSE IF c # 200 THEN "SERVER_ERROR"
                              ELSE "NONE"
                  IN IF kind = "NONE"
                     THEN /\ r.last_error_code = jobs[j].last_error_code
                          /\ r.retry_ = jobs[j].retry_
                     ELSE /\ r.last_error_code = kind
                          /\ r.retry_ = jobs[j].retry_ + 1
                          /\ r.retry_ = 4 =>
                                r.delegate_calls = <<OnFailureCall(kind)>>
        /\ jobs[j].retry_ = 0 <=> jobs[j].last_error_code = "NONE"

\* A token request failed (the empty token was invalidated), then two POSTs
\* failed with non-authentication errors, the last a SERVER_ERROR.
C18_Witness ==
    \E j \in DOMAIN jobs :
        /\ jobs[j].last_error_code = "SERVER_ERROR"
        /\ jobs[j].retry_ = 3
        /\ jobs[j].invalidated = << <<>> >>
        /\ Len(jobs[j].posts) = 2

\* Concatenation of a sequence of strings.
RECURSIVE Flatten(_)
Flatten(strings) ==
    IF strings = <<>> THEN <<>>
    ELSE Head(strings) \o Flatten(Tail(strings))

\* The multipart format as the specification words it.
FormatCRLF ==
    <<"\r", "\n">>
FormatDisposition ==
    <<"C", "o", "n", "t", "e", "n", "t", "-", "D", "i", "s", "p", "o", "s", "i",
      "t", "i", "o", "n", ":", " ", "f", "o", "r", "m", "-", "d", "a", "t", "a",
      ";", " ", "n", "a", "m", "e", "=">>
FormatFilename ==
    <<";", " ", "f", "i", "l", "e", "n", "a", "m", "e", "=">>
Quoted(string) ==
    <<"\"">> \o string \o <<"\"">>

FormatPart(segment, b) ==
    Flatten(<<
        <<"-", "-">> \o b \o FormatCRLF,
        FormatDisposition \o Quoted(segment.name_)
            \o (IF Len(segment.filename_) > 0
                THEN FormatFilename \o Quoted(segment.filename_) ELSE <<>>)
            \o FormatCRLF,
        Flatten([i \in 1..Len(segment.header_entries_) |->
                    segment.header_entries_[i][1] \o <<":", " ">>
                    \o segment.header_entries_[i][2] \o FormatCRLF]),
        FormatCRLF,
        segment.data_[1],
        FormatCRLF >>)

FormatBody(segments, b) ==
    Flatten([i \in 1..Len(segments) |-> FormatPart(segments[i], b)])
    \o <<"-", "-">> \o b \o <<"-", "-">> \o FormatCRLF

\* C19: for every list of uniquely named segments (the empty list too) and
\* every boundary b, the first successful token response leaves as body, and
\* sends as upload data, exactly: per segment in insertion order "--b" CRLF,
\* the Content-Disposition line with the filename field only for a non-empty
\* filename, one "key: value" line per header entry, CRLF, the data, CRLF;
\* then "--b--" CRLF.
C19_BodyFormat ==
    \A j \in DOMAIN jobs :
        (/\ jobs[j].access_token_request_ # <<>>
         /\ jobs[j].post_data_ = <<>>
         /\ ~HasDuplicateName(jobs[j].data_segments_)) =>
            \A t \in Tokens, b \in Boundaries :
                LET r == OnGetTokenSuccess(jobs[j], t, b)
                    body == FormatBody(jobs[j].data_segments_, b)
                IN /\ r.post_data_ = <<body>>
                   /\ r.mime_boundary_ = <<b>>
                   /\ r.upload_fetcher_ # <<>>
                   /\ r.upload_fetcher_[1].upload_data = body

\* A token request is outstanding for a job with three uniquely named
\* segments, with and without filename, with and without header entries.
C19_Witness ==
    \E j \in DOMAIN jobs :
        /\ jobs[j].access_token_request_ # <<>>
        /\ Len(jobs[j].data_segments_) = 3
        /\ ~HasDuplicateName(jobs[j].data_segments_)
        /\ jobs[j].data_segments_[1].filename_ = <<>>
        /\ jobs[j].data_segments_[1].header_entries_ # <<>>
        /\ jobs[j].data_segments_[2].filename_ # <<>>
        /\ jobs[j].data_segments_[3].header_entries_ = <<>>

(***************************************************************************)
(* Reading a multipart body back: delimiter lines, parts, fields.          *)
(***************************************************************************)
\* Whether pattern occurs in string at position i.
OccursAt(string, pattern, i) ==
    /\ i >= 1
    /\ i + Len(pattern) - 1 <= Len(string)
    /\ SubSeq(string, i, i + Len(pattern) - 1) = pattern

Contains(string, pattern) ==
    \E i \in 1..Len(string) : OccursAt(string, pattern, i)

\* The first position at or after from where pattern occurs, 0 if none.
FirstOccurrence(string, pattern, from) ==
    LET found == {i \in from..Len(string) : OccursAt(string, pattern, i)}
    IN IF found = {} THEN 0
       ELSE CHOOSE i \in found : \A k \in found : i <= k

\* The pieces of string between the occurrences of separator.
RECURSIVE SplitAt(_, _)
SplitAt(string, separator) ==
    LET i == FirstOccurrence(string, separator, 1)
    IN IF i = 0 THEN <<string>>
       ELSE <<SubSeq(string, 1, i - 1)>>
            \o SplitAt(SubSeq(string, i + Len(separator), Len(string)), separator)

\* The elements of a set of numbers in ascending order.
RECURSIVE Ascending(_)
Ascending(numbers) ==
    IF numbers = {} THEN <<>>
    ELSE LET least == CHOOSE i \in numbers : \A k \in numbers : i <= k
         IN <<least>> \o Ascending(numbers \ {least})

Delimiter(b) ==
    <<"-", "-">> \o b

\* The positions where a line of the body starts with the delimiter.
DelimiterLines(body, b) ==
    {i \in 1..Len(body) :
        /\ OccursAt(body, Delimiter(b), i)
        /\ i = 1 \/ OccursAt(body, FormatCRLF, i - 2)}

\* Those of them that are the terminal delimiter "--b--".
TerminalDelimiters(body, b) ==
    {i \in DelimiterLines(body, b) :
        OccursAt(body, <<"-", "-">>, i + Len(Delimiter(b)))}

\* The text between the quote at position open and the next quote, and the
\* position after that quote.
QuotedAt(line, open) ==
    LET close == FirstOccurrence(line, <<"\"">>, open + 1)
    IN [text |-> SubSeq(line, open + 1, close - 1), next |-> close + 1]

\* One "key: value" line.
ParseHeaderLine(line) ==
    LET i == FirstOccurrence(line, <<":", " ">>, 1)
    IN <<SubSeq(line, 1, i - 1), SubSeq(line, i + 2, Len(line))>>

\* One part, the text between the CRLF that ends a delimiter line and the
\* CRLF before the next delimiter line: the lines up to the first empty line
\* are the Content-Disposition line and the header entries, the rest is data.
ParsePart(part) ==
    LET blank == FirstOccurrence(part, FormatCRLF \o FormatCRLF, 1)
        lines == SplitAt(SubSeq(part, 1, blank - 1), FormatCRLF)
        name == QuotedAt(lines[1], Len(FormatDisposition) + 1)
        filename ==
            IF OccursAt(lines[1], FormatFilename, name.next)
            THEN QuotedAt(lines[1], name.next + Len(FormatFilename)).text
            ELSE <<>>
    IN [name_ |-> name.text,
        filename_ |-> filename,
        header_entries_ |-> [i \in 1..(Len(lines) - 1) |-> ParseHeaderLine(lines[i + 1])],
        data_ |-> <<SubSeq(part, blank + 4, Len(part))>>]

\* The segments read from the body by splitting it at its delimiter lines.
ParseBody(body, b) ==
    LET at == Ascending(DelimiterLines(body, b))
    IN [i \in 1..(Len(at) - 1) |->
           ParsePart(SubSeq(body, at[i] + Len(Delimiter(b)) + 2, at[i + 1] - 3))]

\* The body has one delimiter line per segment and one terminal delimiter,
\* and reading it back gives the segments.
RoundTrip(segments, body, b) ==
    /\ Cardinality(TerminalDelimiters(body, b)) = 1
    /\ Cardinality(DelimiterLines(body, b) \ TerminalDelimiters(body, b))
          = Len(segments)
    /\ ParseBody(body, b) = segments

\* No field of the segment contains any of the patterns.
FieldsFreeOf(segment, patterns) ==
    \A p \in patterns :
        /\ ~Contains(segment.name_, p)
        /\ ~Contains(segment.filename_, p)
        /\ \A i \in 1..Len(segment.header_entries_) :
               /\ ~Contains(segment.header_entries_[i][1], p)
               /\ ~Contains(segment.header_entries_[i][2], p)

\* A valid set of segments: unique names, and names, filenames and header
\* entries that fit on a header line (no quote, CR or LF, no colon in a key).
ValidSegments(segments) ==
    /\ ~HasDuplicateName(segments)
    /\ \A i \in 1..Len(segments) :
           /\ FieldsFreeOf(segments[i], {<<"\"">>, <<"\r">>, <<"\n">>})
           /\ \A k \in 1..Len(segments[i].header_entries_) :
                  ~Contains(segments[i].header_entries_[k][1], <<":">>)

\* The delimiter of boundary b occurs nowhere in the segments.
DelimiterFree(segments, b) ==
    \A i \in 1..Len(segments) :
        /\ FieldsFreeOf(segments[i], {Delimiter(b)})
        /\ ~Contains(segments[i].data_[1], Delimiter(b))

\* C20 as stated: for every valid set of uniquely named segments, every
\* payload and every boundary the generator may return, the assembled body
\* has exactly one delimiter per segment plus one terminal delimiter, and
\* splitting it at the delimiters gives back every segment's name, filename,
\* header entries and data in order.
C20_RoundTripEveryPayload ==
    \A j \in DOMAIN jobs :
        (/\ jobs[j].access_token_request_ # <<>>
         /\ jobs[j].post_data_ = <<>>
         /\ ValidSegments(jobs[j].data_segments_)) =>
            \A t \in Tokens, b \in Boundaries :
                LET r == OnGetTokenSuccess(jobs[j], t, b)
                IN /\ r.post_data_ # <<>>
                   /\ RoundTrip(jobs[j].data_segments_, r.post_data_[1], b)

\* C20 where it does hold: the body is read back whenever the delimiter "--b"
\* of the boundary the generator returned occurs in no payload and no other
\* field of the segments, which SetUpMultipart does not verify.
C20_RoundTrip ==
    \A j \in DOMAIN jobs :
        (/\ jobs[j].access_token_request_ # <<>>
         /\ jobs[j].post_data_ = <<>>
         /\ ValidSegments(jobs[j].data_segments_)) =>
            \A t \in Tokens, b \in Boundaries :
                DelimiterFree(jobs[j].data_segments_, b) =>
                    LET r == OnGetTokenSuccess(jobs[j], t, b)
                    IN /\ r.post_data_ # <<>>
                       /\ RoundTrip(jobs[j].data_segments_, r.post_data_[1], b)

\* A token request is outstanding for three valid segments, one payload
\* holding CRLF and one holding the delimiter of one boundary but not of the
\* other, so that the other boundary's body is read back.
C20_Witness ==
    \E j \in DOMAIN jobs :
        /\ jobs[j].access_token_request_ # <<>>
        /\ Len(jobs[j].data_segments_) = 3
        /\ ValidSegments(jobs[j].data_segments_)
        /\ \E i \in 1..3 : Contains(jobs[j].data_segments_[i].data_[1], FormatCRLF)
        /\ \E b \in Boundaries : ~DelimiterFree(jobs[j].data_segments_, b)
        /\ \E b \in Boundaries : DelimiterFree(jobs[j].data_segments_, b)

\* The request headers as the specification words them.
FormatContentType(b) ==
    <<"m", "u", "l", "t", "i", "p", "a", "r", "t", "/", "f", "o", "r", "m", "-",
      "d", "a", "t", "a", ";", " ", "b", "o", "u", "n", "d", "a", "r", "y", "=">>
    \o b
FormatAuthorization(t) ==
    <<"A", "u", "t", "h", "o", "r", "i", "z", "a", "t", "i", "o", "n", ":", " ",
      "B", "e", "a", "r", "e", "r", " ">>
    \o t

\* C21: every step that issues a POST issues exactly one, whose Content-Type
\* is "multipart/form-data; boundary=<b>" for the job's boundary b, whose
\* body is the assembled buffer (written in this step from the segments with
\* that same b, or kept from before), and whose Authorization header is
\* "Bearer <t>" for the non-empty token t that the most recent successful
\* token request returned and that the job holds.
C21_PostHeadersAndBody ==
    [][\A j \in DOMAIN jobs :
          jobs'[j].posts # jobs[j].posts =>
              LET post == Last(jobs'[j].posts)
              IN /\ jobs'[j].posts = Append(jobs[j].posts, post)
                 /\ jobs'[j].upload_fetcher_ = <<post>>
                 /\ post.method = "POST"
                 /\ jobs'[j].mime_boundary_ # <<>>
                 /\ post.content_type = FormatContentType(jobs'[j].mime_boundary_[1])
                 /\ jobs'[j].post_data_ = <<post.upload_data>>
                 /\ IF jobs[j].post_data_ = <<>>
                    THEN post.upload_data =
                             FormatBody(jobs[j].data_segments_, jobs'[j].mime_boundary_[1])
                    ELSE /\ jobs'[j].post_data_ = jobs[j].post_data_
                         /\ jobs'[j].mime_boundary_ = jobs[j].mime_boundary_
                 /\ jobs'[j].tokens_granted # <<>>
                 /\ jobs'[j].access_token_ = Last(jobs'[j].tokens_granted)
                 /\ jobs'[j].access_token_ # <<>>
                 /\ post.extra_header = FormatAuthorization(jobs'[j].access_token_)
      ]_vars

\* Three POSTs: the first with the first token, the second with the token
\* that replaced it after a 401, the third a retry with that same token.
C21_Witness ==
    \E j \in DOMAIN jobs :
        /\ Len(jobs[j].posts) = 3
        /\ jobs[j].invalidated = <<(<<"t">>)>>
        /\ jobs[j].tokens_granted = <<(<<"t">>), (<<"u">>)>>
        /\ jobs[j].posts[1].extra_header = FormatAuthorization(<<"t">>)
        /\ jobs[j].posts[3].extra_header = FormatAuthorization(<<"u">>)

\* The assembly step left boundary, body and generator untouched.
AssemblyUntouched(job, r) ==
    /\ r.mime_boundary_ = job.mime_boundary_
    /\ r.post_data_ = job.post_data_
    /\ r.boundary_calls = job.boundary_calls

\* C22: the boundary generator is called at most once per job; entering the
\* assembly step with the body already computed (a token response after an
\* authentication retry, or the delayed StartUpload of a same-token retry)
\* changes neither boundary nor body, whatever the generator would return;
\* and all POSTs of the job carry the same Content-Type and the same body.
C22_AssembledOnce ==
    \A j \in DOMAIN jobs :
        /\ jobs[j].boundary_calls <= 1
        /\ jobs[j].mime_boundary_ # <<>> <=> jobs[j].boundary_calls = 1
        /\ jobs[j].post_data_ # <<>> => jobs[j].mime_boundary_ # <<>>
        /\ (jobs[j].post_data_ # <<>> /\ jobs[j].access_token_request_ # <<>>) =>
              \A t \in Tokens, b \in Boundaries :
                  AssemblyUntouched(jobs[j], OnGetTokenSuccess(jobs[j], t, b))
        /\ (jobs[j].post_data_ # <<>> /\ jobs[j].alive) =>
              \A i \in 1..Len(jobs[j].delayed_tasks), b \in Boundaries :
                  AssemblyUntouched(jobs[j], RunTask(jobs[j], jobs[j].delayed_tasks[i], b))
        /\ \A i, k \in 1..Len(jobs[j].posts) :
              /\ jobs[j].posts[i].content_type = jobs[j].posts[k].content_type
              /\ jobs[j].posts[i].upload_data = jobs[j].posts[k].upload_data

\* Four POSTs of a job with segments were issued, one retry after an
\* authentication error and two after other errors.
C22_Witness ==
    \E j \in DOMAIN jobs :
        /\ Len(jobs[j].posts) = 4
        /\ jobs[j].retry_ = 3
        /\ Len(jobs[j].invalidated) = 1
        /\ jobs[j].invalidated[1] # <<>>
        /\ jobs[j].boundary_calls = 1
        /\ Len(jobs[j].posts[1].upload_data) > Len(FormatBody(<<>>, <<"Q", "9">>))

\* Segments and an assembled message never coexist.
SegmentsOrBody(job) ==
    job.data_segments_ # <<>> =>
        (job.mime_boundary_ = <<>> /\ job.post_data_ = <<>>)

\* C23 as stated: a non-empty data_segments_ never coexists with a set
\* mime_boundary_ or post_data_, and from the state where assembly has
\* succeeded on, in every later state of the job, the segment list is empty
\* and the assembled body is what it was.
C23_BodyKeptForLife ==
    /\ [](\A j \in DOMAIN jobs : SegmentsOrBody(jobs[j]))
    /\ [][\A j \in DOMAIN jobs :
            jobs[j].mime_boundary_ # <<>> =>
                /\ jobs'[j].data_segments_ = <<>>
                /\ jobs'[j].post_data_ = jobs[j].post_data_
         ]_vars

\* C23, amended: the same, except that the body stays what it was only
\* until the step that takes the job to SUCCESS or ERROR, which discards it;
\* the boundary stays set for good.
C23_BodyKeptUntilTerminal ==
    /\ [](\A j \in DOMAIN jobs :
            /\ SegmentsOrBody(jobs[j])
            /\ jobs[j].post_data_ # <<>> <=>
                  (jobs[j].mime_boundary_ # <<>> /\ ~Terminal(jobs[j])))
    /\ [][\A j \in DOMAIN jobs :
            jobs[j].mime_boundary_ # <<>> =>
                /\ jobs'[j].data_segments_ = <<>>
                /\ jobs'[j].mime_boundary_ = jobs[j].mime_boundary_
                /\ \/ jobs'[j].post_data_ = jobs[j].post_data_
                   \/ /\ jobs'[j].post_data_ = <<>>
                      /\ ~Terminal(jobs[j])
                      /\ Terminal(jobs'[j])
         ]_vars

\* A job with segments was assembled and posted three times with the same
\* body, and the 200 answer to the third POST discarded the body.
C23_Witness ==
    \E j \in DOMAIN jobs :
        /\ jobs[j].state_ = "SUCCESS"
        /\ jobs[j].retry_ = 2
        /\ Len(jobs[j].posts) = 3
        /\ Len(jobs[j].posts[3].upload_data) > Len(FormatBody(<<>>, <<"Q", "9">>))
        /\ jobs[j].mime_boundary_ # <<>>
        /\ jobs[j].post_data_ = <<>>
        /\ jobs[j].data_segments_ = <<>>

\* C24: in every state whose state_ is SUCCESS or ERROR, however it was
\* reached, the token request handle and the fetcher handle are null, the
\* assembled body is discarded and the access token is empty.
C24_TerminalReleased ==
    \A j \in DOMAIN jobs :
        Terminal(jobs[j]) =>
            /\ jobs[j].access_token_request_ = <<>>
            /\ jobs[j].upload_fetcher_ = <<>>
            /\ jobs[j].post_data_ = <<>>
            /\ jobs[j].access_token_ = <<>>

\* C25: while a token request is outstanding, and while the delayed task
\* that will issue one is waiting, access_token_ is empty; and access_token_
\* takes a new non-empty value only in the step where the token service
\* returns that value.
C25_TokenEmptyWhileRequested ==
    /\ [](\A j \in DOMAIN jobs :
            /\ jobs[j].access_token_request_ # <<>> => jobs[j].access_token_ = <<>>
            /\ \A i \in 1..Len(jobs[j].delayed_tasks) :
                  jobs[j].delayed_tasks[i].fn = "RequestAccessToken" =>
                      jobs[j].access_token_ = <<>>)
    /\ [][\A j \in DOMAIN jobs :
            (jobs'[j].access_token_ # jobs[j].access_token_
             /\ jobs'[j].access_token_ # <<>>) =>
                /\ jobs[j].access_token_request_ # <<>>
                /\ jobs'[j].tokens_granted =
                      Append(jobs[j].tokens_granted, jobs'[j].access_token_)
         ]_vars

\* The second token request is outstanding, issued after a 401 whose token
\* was invalidated.
C25_Witness ==
    \E j \in DOMAIN jobs :
        /\ jobs[j].access_token_request_ = <<2>>
        /\ Len(jobs[j].posts) = 1
        /\ jobs[j].invalidated = <<jobs[j].tokens_granted[1]>>
        /\ jobs[j].access_token_ = <<>>

\* What a failure handler leaves: below the 4th failure one more delayed
\* task, with the delay configured at that moment, and nothing issued; at
\* the 4th failure no task.
RetryScheduled(job, r) ==
    /\ r.retry_ = job.retry_ + 1
    /\ r.token_requests = job.token_requests
    /\ r.posts = job.posts
    /\ r.access_token_request_ = <<>>
    /\ r.upload_fetcher_ = <<>>
    /\ IF r.retry_ < 4
       THEN /\ r.tasks_posted = job.tasks_posted + 1
            /\ Len(r.delayed_tasks) = Len(job.delayed_tasks) + 1
            /\ SubSeq(r.delayed_tasks, 1, Len(job.delayed_tasks)) = job.delayed_tasks
            /\ Last(r.delayed_tasks).delay = g_retry_delay_ms
            /\ Last(r.delayed_tasks).fn \in {"RequestAccessToken", "StartUpload"}
       ELSE /\ r.tasks_posted = job.tasks_posted
            /\ r.delayed_tasks = job.delayed_tasks

\* C26: every failure below the 4th posts exactly one delayed task with the
\* configured delay and issues nothing itself; the 4th failure and a success
\* post none; a retry (a token request after the first, a POST not started
\* by a token response) is issued only by the step that runs such a task.
\* So the tasks posted by a job number its failures below the 4th (at most
\* 3), and none when the first POST returns 200.
C26_RetryOnlyByDelayedTask ==
    /\ [](\A j \in DOMAIN jobs :
            /\ jobs[j].tasks_posted = (IF jobs[j].retry_ < 4 THEN jobs[j].retry_ ELSE 3)
            /\ jobs[j].access_token_request_ # <<>> =>
                  RetryScheduled(jobs[j], OnGetTokenFailure(jobs[j], g_retry_delay_ms))
            /\ jobs[j].upload_fetcher_ # <<>> =>
                  \A s \in BOOLEAN, c \in ResponseCodes :
                      LET r == OnURLFetchComplete(jobs[j], s, c, g_retry_delay_ms)
                      IN IF s /\ c = 200
                         THEN /\ r.tasks_posted = jobs[j].tasks_posted
                              /\ r.delayed_tasks = jobs[j].delayed_tasks
                         ELSE RetryScheduled(jobs[j], r))
    /\ [][\A j \in DOMAIN jobs :
            (\/ (jobs'[j].token_requests # jobs[j].token_requests /\ jobs[j].started)
             \/ (jobs'[j].posts # jobs[j].posts /\ jobs[j].access_token_request_ = <<>>))
            =>
                /\ Len(jobs'[j].delayed_tasks) = Len(jobs[j].delayed_tasks) - 1
                /\ jobs'[j].tasks_posted = jobs[j].tasks_posted
                /\ jobs'[j].retry_ = jobs[j].retry_
         ]_vars

\* The third failure of a job posted its third task, a same-token retry,
\* with the delay that SetRetryDelayForTesting had set to 0.
C26_Witness ==
    \E j \in DOMAIN jobs :
        /\ jobs[j].retry_ = 3
        /\ jobs[j].tasks_posted = 3
        /\ jobs[j].delayed_tasks = <<[fn |-> "StartUpload", delay |-> 0]>>
        /\ Len(jobs[j].invalidated) = 1

\* What a job will do on each callback that can reach it next.
BehaviourOf(job, delay) ==
    [token_failure |->
         IF job.access_token_request_ # <<>>
         THEN OnGetTokenFailure(job, delay) ELSE job,
     fetch_complete |->
         [s \in BOOLEAN, c \in ResponseCodes |->
             IF job.upload_fetcher_ # <<>>
             THEN OnURLFetchComplete(job, s, c, delay) ELSE job]]

\* The step is one of another job than j, or sets the retry delay.
StepOfOther(j) ==
    \/ \E k \in DOMAIN jobs : k # j /\ jobs'[k] # jobs[k]
    \/ g_retry_delay_ms' # g_retry_delay_ms

\* C27 as stated: a step of one job, setting the retry delay included,
\* leaves every field of the other job and what the other job will do next
\* unchanged.
C27_NoSharedState ==
    [][\A j \in DOMAIN jobs :
          StepOfOther(j) =>
              /\ jobs'[j] = jobs[j]
              /\ BehaviourOf(jobs'[j], g_retry_delay_ms')
                     = BehaviourOf(jobs[j], g_retry_delay_ms)
      ]_vars

\* C27, amended: a public call, token callback, fetch completion or timer
\* firing of one job leaves every field of the other job and the retry
\* delay unchanged, and with them what the other job will do next, which
\* BehaviourOf computes from these two alone; setting the retry delay changes
\* no field of any job.
C27_SharedOnlyRetryDelay ==
    [][/\ \A j \in DOMAIN jobs :
             (\E k \in DOMAIN jobs : k # j /\ jobs'[k] # jobs[k]) =>
                 /\ jobs'[j] = jobs[j]
                 /\ g_retry_delay_ms' = g_retry_delay_ms
       /\ g_retry_delay_ms' # g_retry_delay_ms => jobs' = jobs
      ]_vars

\* Two jobs ran interleaved: the first succeeded on its retry after a
\* failure handled under the default delay, the second is waiting for its
\* retry under the delay 0 set in between.
C27_Witness ==
    /\ DOMAIN jobs = {1, 2}
    /\ jobs[1].state_ = "SUCCESS"
    /\ jobs[1].retry_ = 1
    /\ jobs[2].retry_ = 1
    /\ jobs[2].delayed_tasks = <<[fn |-> "RequestAccessToken", delay |-> 0]>>
    /\ jobs[2].posts # <<>>

\* C28: retry_ is 0 until the first failure and between 0 and 4 always;
\* a token failure and every fetch completion other than a successful 200,
\* of whatever kind, add exactly 1; a token success (assembly failure
\* included), a 200, AddDataSegment, Start and a delayed task leave it as it
\* is; no step decreases it.
C28_RetryCount ==
    /\ [](\A j \in DOMAIN jobs :
            /\ jobs[j].retry_ \in 0..4
            /\ jobs[j].token_requests = 0 => jobs[j].retry_ = 0
            /\ \A s \in SegmentChoices :
                  AddDataSegment(jobs[j], s.name, s.filename, s.header_entries,
                                 s.data).retry_ = jobs[j].retry_
            /\ Start(jobs[j]).retry_ = jobs[j].retry_
            /\ \A i \in 1..Len(jobs[j].delayed_tasks), b \in Boundaries :
                  RunTask(jobs[j], jobs[j].delayed_tasks[i], b).retry_ = jobs[j].retry_
            /\ jobs[j].access_token_request_ # <<>> =>
                  /\ \A t \in Tokens, b \in Boundaries :
                        OnGetTokenSuccess(jobs[j], t, b).retry_ = jobs[j].retry_
                  /\ OnGetTokenFailure(jobs[j], g_retry_delay_ms).retry_
                        = jobs[j].retry_ + 1
            /\ jobs[j].upload_fetcher_ # <<>> =>
                  \A s \in BOOLEAN, c \in ResponseCodes :
                      OnURLFetchComplete(jobs[j], s, c, g_retry_delay_ms).retry_
                          = jobs[j].retry_ + (IF s /\ c = 200 THEN 0 ELSE 1))
    /\ [][\A j \in DOMAIN jobs :
            jobs'[j].retry_ \in {jobs[j].retry_, jobs[j].retry_ + 1}]_vars

\* A job succeeded on its 3rd POST, after a token failure and two failed
\* POSTs, the last a SERVER_ERROR; retry_ kept the 3 it had counted.
C28_Witness ==
    \E j \in DOMAIN jobs :
        /\ jobs[j].state_ = "SUCCESS"
        /\ jobs[j].retry_ = 3
        /\ jobs[j].invalidated # <<>>
        /\ jobs[j].last_error_code = "SERVER_ERROR"
        /\ Len(jobs[j].posts) = 3

\* The job waits for the delayed StartUpload of a same-token retry.
AwaitsSameTokenRetry(job) ==
    \E i \in 1..Len(job.delayed_tasks) : job.delayed_tasks[i].fn = "StartUpload"

\* C29 as stated: while a job waits for the retry that follows a
\* NETWORK_ERROR or SERVER_ERROR, its state is not ACQUIRING_TOKEN.
C29_NotAcquiringDuringWait ==
    \A j \in DOMAIN jobs :
        AwaitsSameTokenRetry(jobs[j]) => jobs[j].state_ # "ACQUIRING_TOKEN"

\* C29, amended: a NETWORK_ERROR or SERVER_ERROR with attempts remaining
\* does set state_ to ACQUIRING_TOKEN, and the job stays in that state
\* during the wait although no token request is outstanding or issued; the
\* delayed task goes directly into the upload path: it finds the state
\* SetUpMultipart expects, requests no token and starts the next POST.
C29_AcquiringWithoutRequest ==
    \A j \in DOMAIN jobs :
        /\ AwaitsSameTokenRetry(jobs[j]) =>
              /\ jobs[j].state_ = "ACQUIRING_TOKEN"
              /\ jobs[j].access_token_request_ = <<>>
              /\ jobs[j].last_error_code \in {"NETWORK_ERROR", "SERVER_ERROR"}
              /\ jobs[j].alive =>
                    \A b \in Boundaries :
                        LET r == RunTask([jobs[j] EXCEPT !.delayed_tasks = <<>>],
                                         jobs[j].delayed_tasks[1], b)
                        IN /\ r.state_ = "UPLOADING"
                           /\ Len(r.posts) = Len(jobs[j].posts) + 1
                           /\ r.token_requests = jobs[j].token_requests
                           /\ r.access_token_request_ = <<>>
                           /\ r.dcheck_failed = jobs[j].dcheck_failed
        /\ (jobs[j].upload_fetcher_ # <<>> /\ jobs[j].retry_ < 3) =>
              \A s \in BOOLEAN, c \in ResponseCodes \ {200, 401} :
                  LET r == OnURLFetchComplete(jobs[j], s, c, g_retry_delay_ms)
                  IN /\ r.state_ = "ACQUIRING_TOKEN"
                     /\ AwaitsSameTokenRetry(r)
                     /\ r.token_requests = jobs[j].token_requests

\* A job waits for its second same-token retry, after a transport failure.
C29_Witness ==
    \E j \in DOMAIN jobs :
        /\ AwaitsSameTokenRetry(jobs[j])
        /\ jobs[j].alive
        /\ jobs[j].retry_ = 2
        /\ jobs[j].invalidated = <<>>
        /\ jobs[j].last_error_code = "NETWORK_ERROR"
        /\ jobs[j].state_ = "ACQUIRING_TOKEN"

\* The sum the specification gives for the estimate.
RECURSIVE Sum(_)
Sum(numbers) ==
    IF numbers = <<>> THEN 0 ELSE Head(numbers) + Sum(Tail(numbers))

ClaimedEstimate(segments) ==
    Sum([i \in 1..Len(segments) |->
            Sum([k \in 1..Len(segments[i].header_entries_) |->
                    Len(segments[i].header_entries_[k][1])
                    + Len(segments[i].header_entries_[k][2])])
            + 70 + Len(segments[i].name_) + Len(segments[i].filename_)
            + Len(segments[i].data_[1]) + 128])

\* The bytes the estimate allows per segment beyond its strings, less the
\* bytes the format adds to them, are at least the closing delimiter line.
SlackCoversClosing(segments, b) ==
    Sum([i \in 1..Len(segments) |->
            149 - Len(b)
            - (IF segments[i].filename_ # <<>> THEN 13 ELSE 0)
            - 4 * Len(segments[i].header_entries_)])
        >= Len(b) + 6

\* C30 as stated: for every list of uniquely named segments, the empty one
\* included, and every boundary of at most 70 characters, the estimate is at
\* least the length of the assembled body (no reallocation warning).
C30_EstimateIsUpperBound ==
    \A j \in DOMAIN jobs :
        (/\ jobs[j].access_token_request_ # <<>>
         /\ jobs[j].post_data_ = <<>>
         /\ ~HasDuplicateName(jobs[j].data_segments_)) =>
            \A t \in Tokens, b \in EstimateBoundaries :
                LET r == OnGetTokenSuccess(jobs[j], t, b)
                IN /\ ClaimedEstimate(jobs[j].data_segments_) >= Len(r.post_data_[1])
                   /\ ~r.realloc_warned

\* C30, amended: the estimate is the claimed sum; it is at least the length
\* of the body exactly when the slack of the segments covers the closing
\* delimiter line, and is too small otherwise (always for the empty list);
\* then the warning is logged and nothing else differs: in both cases the
\* body is the same bytes of the format and the POST is started.
C30_EstimateAndWarning ==
    \A j \in DOMAIN jobs :
        (/\ jobs[j].access_token_request_ # <<>>
         /\ jobs[j].post_data_ = <<>>
         /\ ~HasDuplicateName(jobs[j].data_segments_)) =>
            /\ EstimateSize(jobs[j].data_segments_)
                  = ClaimedEstimate(jobs[j].data_segments_)
            /\ \A t \in Tokens, b \in EstimateBoundaries :
                  LET r == OnGetTokenSuccess(jobs[j], t, b)
                      covered == SlackCoversClosing(jobs[j].data_segments_, b)
                  IN /\ covered <=>
                           ClaimedEstimate(jobs[j].data_segments_) >= Len(r.post_data_[1])
                     /\ r.realloc_warned <=> ~covered
                     /\ jobs[j].data_segments_ = <<>> => ~covered
                     /\ r.post_data_ = <<FormatBody(jobs[j].data_segments_, b)>>
                     /\ r.state_ = "UPLOADING"

\* A token request is outstanding for one segment with header entries whose
\* estimate covers the body under a short boundary and not under the
\* longest one.
C30_Witness ==
    \E j \in DOMAIN jobs :
        /\ jobs[j].access_token_request_ # <<>>
        /\ Len(jobs[j].data_segments_) = 1
        /\ jobs[j].data_segments_[1].header_entries_ # <<>>
        /\ SlackCoversClosing(jobs[j].data_segments_, <<"B">>)
        /\ \E b \in EstimateBoundaries :
               ~SlackCoversClosing(jobs[j].data_segments_, b)

\* Every segment of the list still owns its payload.
PayloadsOwned(job) ==
    \A i \in 1..Len(job.data_segments_) : job.data_segments_[i].data_ # <<>>

\* C31: payloads are taken only by the one step that assembles the body,
\* which takes each payload of the list once and drops the list; every
\* segment that is still in the list owns its payload, so none is read or
\* sized after it was moved out, retries included; and a token response
\* whose assembly fails on duplicate names takes no payload.
C31_PayloadTakenOnce ==
    /\ [](\A j \in DOMAIN jobs :
            /\ PayloadsOwned(jobs[j])
            /\ jobs[j].payloads_taken > 0 =>
                  /\ jobs[j].data_segments_ = <<>>
                  /\ jobs[j].boundary_calls = 1
                  /\ ~jobs[j].assembly_failed
            /\ (jobs[j].access_token_request_ # <<>>
                /\ HasDuplicateName(jobs[j].data_segments_)) =>
                  \A t \in Tokens, b \in Boundaries :
                      LET r == OnGetTokenSuccess(jobs[j], t, b)
                      IN /\ r.assembly_failed
                         /\ r.payloads_taken = 0
                         /\ r.data_segments_ = jobs[j].data_segments_)
    /\ [][\A j \in DOMAIN jobs :
            jobs'[j].payloads_taken # jobs[j].payloads_taken =>
                /\ jobs[j].payloads_taken = 0
                /\ jobs'[j].payloads_taken = Len(jobs[j].data_segments_)
                /\ jobs[j].post_data_ = <<>>
                /\ jobs'[j].post_data_ # <<>>
                /\ jobs[j].posts = <<>>
         ]_vars

\* The two payloads of a job were taken by its one assembly, and four
\* POSTs were issued since.
C31_Witness ==
    \E j \in DOMAIN jobs :
        /\ jobs[j].payloads_taken = 2
        /\ Len(jobs[j].posts) = 4
        /\ jobs[j].boundary_calls = 1

\* C32: no state assertion inside the job fails: a token callback finds
\* ACQUIRING_TOKEN, a fetch completion finds UPLOADING, the delayed
\* RequestAccessToken finds no token request outstanding, the delayed
\* StartUpload finds ACQUIRING_TOKEN for the assembly step and leaves
\* PREPARING_CONTENT for the creation of the POST, and Start takes effect
\* only with retry_ = 0.
C32_StateAssertionsHold ==
    \A j \in DOMAIN jobs :
        /\ jobs[j].dcheck_failed = {}
        /\ jobs[j].access_token_request_ # <<>> =>
              /\ jobs[j].state_ = "ACQUIRING_TOKEN"
              /\ \A t \in Tokens, b \in Boundaries :
                    OnGetTokenSuccess(jobs[j], t, b).dcheck_failed = {}
              /\ OnGetTokenFailure(jobs[j], g_retry_delay_ms).dcheck_failed = {}
        /\ jobs[j].upload_fetcher_ # <<>> =>
              /\ jobs[j].state_ = "UPLOADING"
              /\ \A s \in BOOLEAN, c \in ResponseCodes :
                    OnURLFetchComplete(jobs[j], s, c, g_retry_delay_ms).dcheck_failed = {}
        /\ jobs[j].alive =>
              \A i \in 1..Len(jobs[j].delayed_tasks), b \in Boundaries :
                  /\ RunTask(jobs[j], jobs[j].delayed_tasks[i], b).dcheck_failed = {}
                  /\ jobs[j].delayed_tasks[i].fn = "RequestAccessToken" =>
                        jobs[j].access_token_request_ = <<>>
                  /\ jobs[j].delayed_tasks[i].fn = "StartUpload" =>
                        jobs[j].state_ = "ACQUIRING_TOKEN"
        /\ jobs[j].state_ = "IDLE" =>
              /\ jobs[j].retry_ = 0
              /\ Start(jobs[j]).dcheck_failed = {}

\* A job is in its third POST, re-entered through a delayed
\* RequestAccessToken after a 401 and through a delayed StartUpload after
\* another failure.
C32_Witness ==
    \E j \in DOMAIN jobs :
        /\ jobs[j].state_ = "UPLOADING"
        /\ Len(jobs[j].posts) = 3
        /\ jobs[j].retry_ = 2
        /\ jobs[j].tasks_posted = 2
        /\ Len(jobs[j].invalidated) = 1
        /\ jobs[j].dcheck_failed = {}

\* The job waits for a delayed task calling fn.
Awaits(job, fn) ==
    \E i \in 1..Len(job.delayed_tasks) : job.delayed_tasks[i].fn = fn

\* C33 as stated: in every state of a live job, state_ is UPLOADING exactly
\* when a POST is in flight and ACQUIRING_TOKEN exactly when a token request
\* is outstanding.
C33_StateTracksPending ==
    \A j \in DOMAIN jobs :
        jobs[j].alive =>
            /\ jobs[j].state_ = "UPLOADING" <=> jobs[j].upload_fetcher_ # <<>>
            /\ jobs[j].state_ = "ACQUIRING_TOKEN" <=> jobs[j].access_token_request_ # <<>>

\* C33, amended: a POST in flight implies UPLOADING and an outstanding token
\* request implies ACQUIRING_TOKEN, but not conversely: during a retry wait
\* state_ keeps a value with no request behind it.  UPLOADING without a POST
\* is the wait after a 401; ACQUIRING_TOKEN without a token request is the
\* wait after a token failure (which will request a token) or after a
\* NETWORK_ERROR or SERVER_ERROR (which will not).
C33_PendingImpliesState ==
    \A j \in DOMAIN jobs :
        jobs[j].alive =>
            /\ jobs[j].upload_fetcher_ # <<>> => jobs[j].state_ = "UPLOADING"
            /\ jobs[j].access_token_request_ # <<>> => jobs[j].state_ = "ACQUIRING_TOKEN"
            /\ (jobs[j].state_ = "UPLOADING" /\ jobs[j].upload_fetcher_ = <<>>) =>
                  /\ Awaits(jobs[j], "RequestAccessToken")
                  /\ jobs[j].last_error_code = "AUTHENTICATION_ERROR"
                  /\ Last(jobs[j].invalidated) # <<>>
            /\ (jobs[j].state_ = "ACQUIRING_TOKEN"
                /\ jobs[j].access_token_request_ = <<>>) =>
                  \/ /\ Awaits(jobs[j], "RequestAccessToken")
                     /\ jobs[j].last_error_code = "AUTHENTICATION_ERROR"
                     /\ Last(jobs[j].invalidated) = <<>>
                  \/ /\ Awaits(jobs[j], "StartUpload")
                     /\ jobs[j].last_error_code \in {"NETWORK_ERROR", "SERVER_ERROR"}
            /\ jobs[j].state_ # "PREPARING_CONTENT"

\* A live job waits for the retry after a 401: its state is UPLOADING and
\* no POST is in flight.
C33_Witness ==
    \E j \in DOMAIN jobs :
        /\ jobs[j].alive
        /\ jobs[j].state_ = "UPLOADING"
        /\ jobs[j].upload_fetcher_ = <<>>
        /\ Awaits(jobs[j], "RequestAccessToken")
        /\ jobs[j].retry_ = 1

\* C34: a token failure with attempts remaining calls InvalidateAccessToken
\* once, with the empty string; a 401 with attempts remaining calls it once,
\* with the token that the failed POST carried in its Authorization header;
\* a transport failure, any other response code, a 200 and every 4th
\* failure do not call it; and no other step does.
C34_InvalidateOnAuthRetry ==
    /\ [](\A j \in DOMAIN jobs :
            /\ jobs[j].access_token_request_ # <<>> =>
                  OnGetTokenFailure(jobs[j], g_retry_delay_ms).invalidated =
                      (IF jobs[j].retry_ < 3
                       THEN Append(jobs[j].invalidated, <<>>)
                       ELSE jobs[j].invalidated)
            /\ jobs[j].upload_fetcher_ # <<>> =>
                  \A s \in BOOLEAN, c \in ResponseCodes :
                      LET r == OnURLFetchComplete(jobs[j], s, c, g_retry_delay_ms)
                      IN IF s /\ c = 401 /\ jobs[j].retry_ < 3
                         THEN /\ Len(r.invalidated) = Len(jobs[j].invalidated) + 1
                              /\ SubSeq(r.invalidated, 1, Len(jobs[j].invalidated))
                                    = jobs[j].invalidated
                              /\ Last(r.invalidated) # <<>>
                              /\ FormatAuthorization(Last(r.invalidated))
                                    = Last(jobs[j].posts).extra_header
                         ELSE r.invalidated = jobs[j].invalidated)
    /\ [][\A j \in DOMAIN jobs :
            jobs'[j].invalidated # jobs[j].invalidated =>
                /\ Len(jobs'[j].invalidated) = Len(jobs[j].invalidated) + 1
                /\ jobs'[j].retry_ = jobs[j].retry_ + 1
                /\ jobs'[j].retry_ < 4
                /\ jobs'[j].last_error_code = "AUTHENTICATION_ERROR"
         ]_vars

\* Four failures: a token failure invalidated the empty string, a 401 the
\* token of its POST, a third failure of another kind and the terminal
\* authentication failure invalidated nothing.
C34_Witness ==
    \E j \in DOMAIN jobs :
        /\ jobs[j].retry_ = 4
        /\ jobs[j].delegate_calls = <<OnFailureCall("AUTHENTICATION_ERROR")>>
        /\ Len(jobs[j].invalidated) = 2
        /\ jobs[j].invalidated[1] = <<>>
        /\ jobs[j].invalidated[2] # <<>>

\* The handler that produced r called the delegate as its last step: the
\* members the callback found are the members the handler left.
CallbackLast(job, r) ==
    r.delegate_calls # job.delegate_calls =>
        /\ Len(r.callback_views) = Len(job.callback_views) + 1
        /\ Last(r.callback_views) = Members(r)

\* C35: each delegate callback found the job with state_ already SUCCESS
\* (OnSuccess) or ERROR (OnFailure), the token cleared, the body discarded
\* and both request handles released; the handler wrote no member after the
\* callback, and no later step does: the members stay as the callback found
\* them and nothing is pending, so destroying the job inside the callback
\* cancels nothing and leaves no job action behind.
C35_CallbackIsLastStep ==
    \A j \in DOMAIN jobs :
        /\ Len(jobs[j].callback_views) = Len(jobs[j].delegate_calls)
        /\ \A i \in 1..Len(jobs[j].callback_views) :
              LET view == jobs[j].callback_views[i]
              IN /\ view.state_ = (IF jobs[j].delegate_calls[i].cb = "OnSuccess"
                                   THEN "SUCCESS" ELSE "ERROR")
                 /\ view.access_token_ = <<>>
                 /\ view.post_data_ = <<>>
                 /\ view.upload_fetcher_ = <<>>
                 /\ view.access_token_request_ = <<>>
        /\ jobs[j].callback_views # <<>> =>
              /\ Members(jobs[j]) = Last(jobs[j].callback_views)
              /\ NothingPending(jobs[j])
              /\ Members(Destroy(jobs[j])) = Members(jobs[j])
        /\ jobs[j].access_token_request_ # <<>> =>
              CallbackLast(jobs[j], OnGetTokenFailure(jobs[j], g_retry_delay_ms))
        /\ jobs[j].upload_fetcher_ # <<>> =>
              \A s \in BOOLEAN, c \in ResponseCodes :
                  CallbackLast(jobs[j],
                               OnURLFetchComplete(jobs[j], s, c, g_retry_delay_ms))

\* OnFailure(SERVER_ERROR) was delivered on the 4th failure of a job with
\* four POSTs, and the job was destroyed afterwards.
C35_Witness ==
    \E j \in DOMAIN jobs :
        /\ ~jobs[j].alive
        /\ jobs[j].delegate_calls = <<OnFailureCall("SERVER_ERROR")>>
        /\ Len(jobs[j].callback_views) = 1
        /\ jobs[j].callback_views[1].retry_ = 4
        /\ Len(jobs[j].posts) = 4

\* C36: the assembly step, with its duplicate-name check, runs only in and
\* after the step of the first successful token response.  Start requests a
\* token from a job with duplicate names as from any other; while no token
\* was granted the duplicate stays undetected, and the 4th token failure
\* ends such a job with OnFailure(AUTHENTICATION_ERROR).  The assembly fails
\* only in the step of the first successful token response (before any POST
\* or boundary), whether or not token requests failed before it, and never
\* in a delayed task.
C36_AssemblyAfterFirstToken ==
    /\ [](\A j \in DOMAIN jobs :
            /\ jobs[j].tokens_granted = <<>> =>
                  /\ ~jobs[j].assembly_failed
                  /\ jobs[j].boundary_calls = 0
                  /\ jobs[j].payloads_taken = 0
                  /\ jobs[j].post_data_ = <<>>
            /\ jobs[j].assembly_failed =>
                  /\ Len(jobs[j].tokens_granted) = 1
                  /\ jobs[j].posts = <<>>
                  /\ jobs[j].boundary_calls = 0
                  /\ HasDuplicateName(jobs[j].data_segments_)
            /\ (HasDuplicateName(jobs[j].data_segments_) /\ jobs[j].state_ = "IDLE") =>
                  /\ Start(jobs[j]).token_requests = 1
                  /\ Start(jobs[j]).access_token_request_ # <<>>
                  /\ ~Start(jobs[j]).assembly_failed
            /\ (HasDuplicateName(jobs[j].data_segments_)
                /\ jobs[j].access_token_request_ # <<>>) =>
                  LET r == OnGetTokenFailure(jobs[j], g_retry_delay_ms)
                  IN /\ ~r.assembly_failed
                     /\ r.data_segments_ = jobs[j].data_segments_
                     /\ jobs[j].retry_ = 3 =>
                           /\ r.state_ = "ERROR"
                           /\ r.delegate_calls = <<OnFailureCall("AUTHENTICATION_ERROR")>>
            /\ \A i \in 1..Len(jobs[j].delayed_tasks), b \in Boundaries :
                  RunTask(jobs[j], jobs[j].delayed_tasks[i], b).assembly_failed
                      = jobs[j].assembly_failed)
    /\ [][\A j \in DOMAIN jobs :
            jobs'[j].assembly_failed # jobs[j].assembly_failed =>
                /\ jobs[j].access_token_request_ # <<>>
                /\ jobs[j].tokens_granted = <<>>
                /\ Len(jobs'[j].tokens_granted) = 1
                /\ jobs'[j].posts = <<>>
         ]_vars

\* A job with duplicate names issued four token requests, all failed, and
\* it ended with OnFailure(AUTHENTICATION_ERROR), its segments untouched.
C36_Witness ==
    \E j \in DOMAIN jobs :
        /\ HasDuplicateName(jobs[j].data_segments_)
        /\ jobs[j].token_requests = 4
        /\ jobs[j].retry_ = 4
        /\ ~jobs[j].assembly_failed
        /\ jobs[j].delegate_calls = <<OnFailureCall("AUTHENTICATION_ERROR")>>

====
